---- MODULE Spec2Model ----
(***************************************************************************)
(* Aggregation pipeline of the chart builder:                              *)
(*   - the POST /analytics/aggregate handler (SQL generation, execution),  *)
(*   - the DynamicChartBuilder component (selection state, join inference, *)
(*     request construction, response handling, pivot).                    *)
(* SQL text is built as real strings, exactly as the handler concatenates  *)
(* them.  A JavaScript "falsy" string (undefined, null, "") is "".         *)
(***************************************************************************)
EXTENDS Integers, Sequences, FiniteSets, TLC

VARIABLES
  \* the aggregate handler (one request at a time; handlers share no state)
  apiPc,               \* "received" | "executing" | "done"
  apiBody,             \* req.body
  apiStmt,             \* the statement built and handed to _query
  apiRes,              \* the response written: status and JSON body
  \* App.tsx state handed to the chart builder as props
  selectedTable,       \* tableName prop ("" before a table is selected)
  secondaryTableNames,
  allTableSchemas,
  \* DynamicChartBuilder state
  xAxisColumn,
  yAxisColumns,
  groupByColumn,
  aggregationType,
  chartData,
  loading,
  error,
  generatedQuery,
  uniqueGroupKeys,
  inferredJoinColumns, \* the value held by the useMemo
  \* getAggregatedData promises not yet settled, each with what its callbacks
  \* closed over
  inflight,
  \* bookkeeping of the requests: how many were issued, and which one wrote the
  \* chartData now shown (0: none)
  issued,
  committed,
  lastResp,            \* the response the builder handled last
  \* the pg type parser of BIGINT (OID 20)
  pgText,              \* the text of an int8 value as the store sends it
  pgValue,             \* what the parser returned for it
  \* the classification of a schema column's type
  rawType,             \* DatabaseColumn.type, as characters
  columnKind,          \* what each copy of normalizeType returned for it
  \* App.tsx: the tabs and the loading of the schemas
  activeTab,
  tables,              \* the table names fetched at mount (<<>> before)
  schemaFetches,       \* fetchAllTableSchemas passes still running
  fetchesStarted,      \* how many passes were started
  schemaWrites         \* how many times setAllTableSchemas was called

vars == <<apiPc, apiBody, apiStmt, apiRes, selectedTable, secondaryTableNames,
          allTableSchemas, xAxisColumn, yAxisColumns, groupByColumn,
          aggregationType, chartData, loading, error, generatedQuery,
          uniqueGroupKeys, inferredJoinColumns, inflight, issued, committed,
          lastResp, pgText, pgValue, rawType, columnKind, activeTab, tables,
          schemaFetches, fetchesStarted, schemaWrites>>

pgVars == <<pgText, pgValue>>

typeVars == <<rawType, columnKind>>

schemaVars == <<activeTab, tables, schemaFetches, fetchesStarted, schemaWrites>>

apiVars == <<apiPc, apiBody, apiStmt, apiRes>>

appVars == <<selectedTable, secondaryTableNames, allTableSchemas>>

builderVars == <<xAxisColumn, yAxisColumns, groupByColumn, aggregationType,
                 chartData, loading, error, generatedQuery, uniqueGroupKeys,
                 inflight, issued, committed, lastResp>>

(***************************************************************************)
(* Bounds of the model.                                                    *)
(***************************************************************************)
MaxY == 2
MaxFilters == 2
MaxSecondary == 2
MaxCols == 2
MaxRequests == 2
MaxRows == 3

(***************************************************************************)
(* Generic helpers.                                                        *)
(***************************************************************************)
Range(s) == {s[i] : i \in 1..Len(s)}

SeqsUpTo(S, n) == UNION {[1..k -> S] : k \in 0..n}

NoDup(s) == \A i, j \in 1..Len(s) : i # j => s[i] # s[j]

\* Array.prototype.join(sep)
RECURSIVE join(_, _)
join(parts, sep) ==
  IF Len(parts) = 0 THEN ""
  ELSE IF Len(parts) = 1 THEN parts[1]
  ELSE parts[1] \o sep \o join(Tail(parts), sep)

\* The object {} (no keys).
EmptyObject == [k \in {} |-> ""]

(***************************************************************************)
(* Column references.  present = FALSE is undefined/null.                  *)
(***************************************************************************)
Col(k, t) == [present |-> TRUE, key |-> k, tableName |-> t]
Null == [present |-> FALSE, key |-> "", tableName |-> ""]

(***************************************************************************)
(* POST /analytics/aggregate: SQL generation.                              *)
(* A step that can throw yields [ok, v]: v is the value, or the message of *)
(* the Error thrown.                                                       *)
(***************************************************************************)
Ok(v) == [ok |-> TRUE, v |-> v]
Throw(msg) == [ok |-> FALSE, v |-> msg]

\* String.prototype.toUpperCase on the aggregation names the model sends.
toUpperCase(s) ==
  CASE s = "sum" -> "SUM"
    [] s = "count" -> "COUNT"
    [] s = "avg" -> "AVG"
    [] s = "min" -> "MIN"
    [] s = "max" -> "MAX"
    [] s = "median" -> "MEDIAN"
    [] OTHER -> s

allowedAggs == {"SUM", "COUNT", "AVG", "MIN", "MAX"}

primaryAlias == "t1"

quoted(str) == "\"" \o str \o "\""

\* The aliases numbered by a counter kept across requests: it is not reset once
\* a request has been handled.
tableAliasesCounterKept(secondaries) ==
  LET start == IF apiPc = "received" THEN 2 ELSE 2 + Len(secondaries)
  IN [t \in Range(secondaries) |->
        LET last == CHOOSE i \in 1..Len(secondaries) :
                      /\ secondaries[i] = t
                      /\ \A j \in (i+1)..Len(secondaries) : secondaries[j] # t
        IN "t" \o ToString(last - 1 + start)]

\* let aliasCounter = 2; forEach(table => tableAliases[table] = `t${aliasCounter++}`):
\* the i-th declared name gets t{i+1}; a name declared twice keeps the later alias.
tableAliases(secondaries) ==
  [t \in Range(secondaries) |->
     LET last == CHOOSE i \in 1..Len(secondaries) :
                   /\ secondaries[i] = t
                   /\ \A j \in (i+1)..Len(secondaries) : secondaries[j] # t
     IN "t" \o ToString(last + 1)]

\* The parameter tableName shadows the handler's tableName, so the comparison
\* at line 75 compares the column's table with itself.
getQualifiedColumn(col, aliases) ==
  IF col.key = "" \/ col.tableName = "" THEN Throw("Invalid column object")
  ELSE IF col.tableName = col.tableName
    THEN Ok(primaryAlias \o "." \o quoted(col.key))
  ELSE IF col.tableName \notin DOMAIN aliases
    THEN Throw("Missing alias for table: " \o col.tableName)
  ELSE Ok(aliases[col.tableName] \o "." \o quoted(col.key))

\* The validation without the loop of lines 45-54 over the y entries.
validationNoEntryLoop(body) ==
  IF \/ body.tableName = ""
     \/ ~body.xAxis.present
     \/ body.xAxis.key = ""
     \/ body.xAxis.tableName = ""
     \/ Len(body.yAxes) = 0
     \/ Len(body.aggregationTypes) # Len(body.yAxes)
    THEN "Missing or invalid parameters"
  ELSE IF body.groupBy.present
          /\ (body.groupBy.key = "" \/ body.groupBy.tableName = "")
    THEN "Invalid groupBy column"
  ELSE ""

\* Lines 29-60: the message of the 400 response, or "" when the body passes.
validation(body) ==
  IF \/ body.tableName = ""
     \/ ~body.xAxis.present
     \/ body.xAxis.key = ""
     \/ body.xAxis.tableName = ""
     \/ Len(body.yAxes) = 0
     \/ Len(body.aggregationTypes) # Len(body.yAxes)
    THEN "Missing or invalid parameters"
  ELSE IF \E i \in 1..Len(body.yAxes) :
            \/ ~body.yAxes[i].present
            \/ body.yAxes[i].key = ""
            \/ body.yAxes[i].tableName = ""
    THEN "Invalid yAxis column"
  ELSE IF body.groupBy.present
          /\ (body.groupBy.key = "" \/ body.groupBy.tableName = "")
    THEN "Invalid groupBy column"
  ELSE ""

\* joinColumns[t]: undefined (here "") when the object has no such key.
joinColumnOf(joinColumns, t) ==
  IF t \in DOMAIN joinColumns THEN joinColumns[t] ELSE ""

\* The condition of line 91 without the comparison of the keys.
groupByGiven(body) == body.groupBy.present

\* Lines 90-95: the group-by column is selected only if its key differs from x.
groupByDiffers(body) ==
  body.groupBy.present /\ body.groupBy.key # body.xAxis.key

\* Lines 100-109, one iteration of yAxes.forEach.
yPart(body, idx, aliases) ==
  LET agg == toUpperCase(body.aggregationTypes[idx])
      qualifiedCol == getQualifiedColumn(body.yAxes[idx], aliases)
  IN IF agg \notin allowedAggs THEN Throw("Invalid aggregation type: " \o agg)
     ELSE IF ~qualifiedCol.ok THEN qualifiedCol
     ELSE Ok("CAST(" \o agg \o "(" \o qualifiedCol.v \o ") AS BIGINT) AS "
             \o quoted(body.yAxes[idx].key))

\* Lines 116-125, one iteration of secondaryTableNames.forEach.
joinPart(body, i, aliases) ==
  LET t == body.secondaryTableNames[i]
      alias == aliases[t]
      joinCol == joinColumnOf(body.joinColumns, t)
  IN IF joinCol = "" THEN Throw("Missing join column for table " \o t)
     ELSE Ok(" INNER JOIN " \o quoted(t) \o " AS " \o alias \o " ON "
             \o primaryAlias \o "." \o quoted(joinCol) \o " = "
             \o alias \o "." \o quoted(joinCol))

\* The placeholder numbered before the value is pushed.
placeholderBeforePush(queryParams) == "$" \o ToString(Len(queryParams) - 1)

\* The value just pushed written into the text as a literal.
valueInterpolated(queryParams) == "'" \o queryParams[Len(queryParams)] \o "'"

\* The placeholder of a filter: `$${queryParams.length}` after its value is pushed.
placeholder(queryParams) == "$" \o ToString(Len(queryParams))

\* Lines 130-134, filters.map: folds the filters from index i on, threading
\* queryParams; yields [ok, v, whereParts, queryParams].
RECURSIVE whereFold(_, _, _, _, _)
whereFold(filters, i, aliases, whereParts, queryParams) ==
  IF i > Len(filters)
    THEN [ok |-> TRUE, v |-> "", whereParts |-> whereParts,
          queryParams |-> queryParams]
  ELSE LET qualified == getQualifiedColumn(filters[i], aliases)
           pushed == Append(queryParams, filters[i].value)
       IN IF ~qualified.ok
            THEN [ok |-> FALSE, v |-> qualified.v, whereParts |-> whereParts,
                  queryParams |-> queryParams]
          ELSE whereFold(filters, i + 1, aliases,
                 Append(whereParts,
                        qualified.v \o " " \o filters[i].operator \o " "
                          \o placeholder(pushed)),
                 pushed)

\* The clause ordered by the x column alone.
groupOrderByFirst(groupByParts) ==
  IF Len(groupByParts) > 0
    THEN " GROUP BY " \o join(groupByParts, ", ") \o " ORDER BY " \o groupByParts[1]
  ELSE ""

\* Lines 139-143: GROUP BY and ORDER BY over groupByParts.
groupOrderClause(groupByParts) ==
  IF Len(groupByParts) > 0
    THEN " GROUP BY " \o join(groupByParts, ", ")
           \o " ORDER BY " \o join(groupByParts, ", ")
  ELSE ""

\* The first step of a sequence of steps that threw, 0 if none did.
firstThrow(steps) ==
  IF \A i \in 1..Len(steps) : steps[i].ok THEN 0
  ELSE CHOOSE i \in 1..Len(steps) :
         ~steps[i].ok /\ \A j \in 1..(i-1) : steps[j].ok

\* Lines 62-145: the statement and its parameters built from a validated body, or
\* the Error thrown on the way.  The intermediate arrays are kept in the result.
buildQuery(body) ==
  LET aliases == tableAliases(body.secondaryTableNames)
      xCol == getQualifiedColumn(body.xAxis, aliases)
      groupByCol == IF groupByDiffers(body)
                      THEN getQualifiedColumn(body.groupBy, aliases)
                      ELSE Ok("")
      yParts == [idx \in 1..Len(body.yAxes) |-> yPart(body, idx, aliases)]
      joinParts == [i \in 1..Len(body.secondaryTableNames) |->
                      joinPart(body, i, aliases)]
      where == whereFold(body.filters, 1, aliases, <<>>, <<>>)
      steps == <<xCol, groupByCol>> \o yParts \o joinParts
                 \o <<[ok |-> where.ok, v |-> where.v]>>
      thrown == firstThrow(steps)
      selectParts == <<xCol.v \o " AS name">>
                       \o (IF groupByDiffers(body)
                             THEN <<groupByCol.v \o " AS " \o quoted(body.groupBy.key)>>
                             ELSE <<>>)
                       \o [idx \in 1..Len(yParts) |-> yParts[idx].v]
      groupByParts == <<xCol.v>>
                        \o (IF groupByDiffers(body) THEN <<groupByCol.v>> ELSE <<>>)
      query == "SELECT " \o join(selectParts, ", ") \o " FROM "
                 \o quoted(body.tableName) \o " AS " \o primaryAlias
                 \o join([i \in 1..Len(joinParts) |-> joinParts[i].v], "")
                 \o (IF Len(body.filters) > 0
                       THEN " WHERE " \o join(where.whereParts, " AND ")
                       ELSE "")
                 \o groupOrderClause(groupByParts)
  IN IF thrown # 0
       THEN [ok |-> FALSE, error |-> steps[thrown].v, query |-> "",
             queryParams |-> <<>>, aliases |-> aliases, selectParts |-> <<>>,
             groupByParts |-> <<>>, joinParts |-> <<>>, whereParts |-> <<>>]
     ELSE [ok |-> TRUE, error |-> "", query |-> query,
           queryParams |-> where.queryParams, aliases |-> aliases,
           selectParts |-> selectParts, groupByParts |-> groupByParts,
           joinParts |-> [i \in 1..Len(joinParts) |-> joinParts[i].v],
           whereParts |-> where.whereParts]

(***************************************************************************)
(* DynamicChartBuilder: columns, schemas, join inference.                  *)
(***************************************************************************)
\* DatabaseColumn (the fields the builder reads); present = FALSE is null.
DbCol(k, t, ty) == [present |-> TRUE, key |-> k, tableName |-> t, type |-> ty]
NoColumn == [present |-> FALSE, key |-> "", tableName |-> "", type |-> ""]

\* DatabaseTableSchema
Schema(t, cols) == [tableName |-> t, columns |-> cols]

\* Array.prototype.find on the schema list: the index of the first schema of
\* that table, 0 when there is none.
findSchema(schemas, t) ==
  IF \E i \in 1..Len(schemas) : schemas[i].tableName = t
    THEN CHOOSE i \in 1..Len(schemas) :
           /\ schemas[i].tableName = t
           /\ \A j \in 1..(i-1) : schemas[j].tableName # t
    ELSE 0

\* The nested loops matching on the key alone.
RECURSIVE firstJoinKeyByName(_, _, _)
firstJoinKeyByName(pCols, sCols, i) ==
  IF i > Len(pCols) THEN ""
  ELSE IF \E j \in 1..Len(sCols) : pCols[i].key = sCols[j].key
    THEN pCols[i].key
  ELSE firstJoinKeyByName(pCols, sCols, i + 1)

\* Lines 114-121: the nested loops over pSchema.columns and sSchema.columns from
\* primary column i on; "" when no pair matches.
RECURSIVE firstJoinKey(_, _, _)
firstJoinKey(pCols, sCols, i) ==
  IF i > Len(pCols) THEN ""
  ELSE IF \E j \in 1..Len(sCols) :
            pCols[i].key = sCols[j].key /\ pCols[i].type = sCols[j].type
    THEN pCols[i].key
  ELSE firstJoinKey(pCols, sCols, i + 1)

\* Lines 103-125: the memoised Record<table, joinKey>; a table with no schema or
\* no matching pair has no entry.
inferJoinColumns(tableName, secondaries, schemas) ==
  LET p == findSchema(schemas, tableName)
      keyOf(sTable) ==
        LET sIdx == findSchema(schemas, sTable)
        IN IF sIdx = 0 THEN ""
           ELSE firstJoinKey(schemas[p].columns, schemas[sIdx].columns, 1)
  IN [sTable \in IF Len(secondaries) = 0 \/ p = 0 THEN {}
                  ELSE {t \in Range(secondaries) : keyOf(t) # ""}
        |-> keyOf(sTable)]

(***************************************************************************)
(* normalizeType.  TLA+ strings are atomic, so a raw type is decoded into  *)
(* its characters for toLowerCase and String.prototype.includes.           *)
(***************************************************************************)
Chars(type) ==
  CASE type = "number" -> <<"n","u","m","b","e","r">>
    [] type = "string" -> <<"s","t","r","i","n","g">>
    [] type = "date" -> <<"d","a","t","e">>
    [] type = "text" -> <<"t","e","x","t">>
    [] type = "TEXT" -> <<"T","E","X","T">>
    [] type = "varchar" -> <<"v","a","r","c","h","a","r">>
    [] type = "integer" -> <<"i","n","t","e","g","e","r">>
    [] type = "BIGINT" -> <<"B","I","G","I","N","T">>
    [] type = "float" -> <<"f","l","o","a","t">>
    [] type = "double precision" ->
         <<"d","o","u","b","l","e"," ","p","r","e","c","i","s","i","o","n">>
    [] type = "decimal" -> <<"d","e","c","i","m","a","l">>
    [] type = "numeric" -> <<"n","u","m","e","r","i","c">>
    [] type = "real" -> <<"r","e","a","l">>
    [] type = "boolean" -> <<"b","o","o","l","e","a","n">>
    [] type = "point" -> <<"p","o","i","n","t">>
    [] OTHER -> <<>>

UpperChars ==
  <<"A","B","C","D","E","F","G","H","I","J","K","L","M",
    "N","O","P","Q","R","S","T","U","V","W","X","Y","Z">>

LowerChars ==
  <<"a","b","c","d","e","f","g","h","i","j","k","l","m",
    "n","o","p","q","r","s","t","u","v","w","x","y","z">>

lowerChar(c) ==
  IF \E i \in 1..26 : UpperChars[i] = c
    THEN LowerChars[CHOOSE i \in 1..26 : UpperChars[i] = c]
  ELSE c

toLowerCase(chars) == [i \in 1..Len(chars) |-> lowerChar(chars[i])]

includes(chars, sub) ==
  \E i \in 0..(Len(chars) - Len(sub)) :
    \A j \in 1..Len(sub) : chars[i + j] = sub[j]

\* Lines 80-94, on the characters of the type.
normalizeTypeChars(chars) ==
  LET lower == toLowerCase(chars)
  IN IF includes(lower, <<"c","h","a","r">>) \/ lower = <<"t","e","x","t">>
       THEN "string"
     ELSE IF \/ includes(lower, <<"i","n","t">>)
             \/ includes(lower, <<"f","l","o","a","t">>)
             \/ includes(lower, <<"d","o","u","b","l","e">>)
             \/ includes(lower, <<"d","e","c","i","m","a","l">>)
             \/ includes(lower, <<"n","u","m","e","r","i","c">>)
             \/ includes(lower, <<"r","e","a","l">>)
             \/ lower = <<"n","u","m","b","e","r">>
       THEN "number"
     ELSE "string"

normalizeType(type) == normalizeTypeChars(Chars(type))

\* The copy of normalizeType in components/DynamicChartBuilder.tsx (lines
\* 121-133; ChartDataTable.tsx and DashboardGrid.tsx carry the same one): float,
\* double and decimal are compared for equality, numeric and real are absent.
normalizeTypeTsx(chars) ==
  LET lower == toLowerCase(chars)
  IN IF includes(lower, <<"c","h","a","r">>) \/ lower = <<"t","e","x","t">>
       THEN "string"
     ELSE IF \/ includes(lower, <<"i","n","t">>)
             \/ lower = <<"f","l","o","a","t">>
             \/ lower = <<"d","o","u","b","l","e">>
             \/ lower = <<"d","e","c","i","m","a","l">>
             \/ lower = <<"n","u","m","b","e","r">>
       THEN "number"
     ELSE "string"

\* Lines 96-100: useMemo effectiveGroupByColumn.
effectiveGroupByColumn(g, x) ==
  IF ~g.present \/ ~x.present THEN NoColumn
  ELSE IF g.key = x.key THEN NoColumn
  ELSE g

\* aggTypes without the override for string columns.
aggTypesAsRequested(yCols, agg) == [i \in 1..Len(yCols) |-> agg]

\* Lines 216-218: aggTypes.
aggTypes(yCols, agg) ==
  [i \in 1..Len(yCols) |->
     IF normalizeType(yCols[i].type) = "string" THEN "COUNT" ELSE agg]

\* AggregationColumn of a DatabaseColumn (lines 220-233).
aggColumn(c) == IF c.present THEN Col(c.key, c.tableName) ELSE Null

\* Lines 235-243: the AggregationRequest sent (no filters key: the handler
\* defaults it to []).
buildRequest(table, secondaries, joins, x, yCols, g, agg) ==
  [tableName |-> table,
   xAxis |-> aggColumn(x),
   yAxes |-> [i \in 1..Len(yCols) |-> aggColumn(yCols[i])],
   groupBy |-> aggColumn(effectiveGroupByColumn(g, x)),
   aggregationTypes |-> aggTypes(yCols, agg),
   filters |-> <<>>,
   secondaryTableNames |-> secondaries,
   joinColumns |-> joins]

\* Lines 128-194: the SQL preview shown in the query view.
constructSqlQuery(table, secondaries, joins, x, yCols, g, agg) ==
  LET aliases == tableAliases(secondaries)
      usesSecondary == Len(secondaries) > 0
      qual(col) ==
        IF usesSecondary /\ col.tableName # table
          THEN (IF col.tableName \in DOMAIN aliases
                  THEN aliases[col.tableName] ELSE "undefined")
                 \o ".\"" \o col.key \o "\""
          ELSE "t1.\"" \o col.key \o "\""
      eff == effectiveGroupByColumn(g, x)
      sel == <<qual(x) \o " AS name">>
               \o (IF eff.present THEN <<qual(eff)>> ELSE <<>>)
               \o [i \in 1..Len(yCols) |->
                     (IF normalizeType(yCols[i].type) = "string"
                        THEN "COUNT" ELSE agg)
                       \o "(" \o qual(yCols[i]) \o ") AS \"" \o yCols[i].key \o "\""]
      grp == <<qual(x)>> \o (IF eff.present THEN <<qual(eff)>> ELSE <<>>)
      joinText(i) ==
        LET t == secondaries[i]
            joinCol == joinColumnOf(joins, t)
        IN IF joinCol # ""
             THEN "\nINNER JOIN \"" \o t \o "\" AS " \o aliases[t] \o " ON t1.\""
                    \o joinCol \o "\" = " \o aliases[t] \o ".\"" \o joinCol \o "\""
             ELSE ""
  IN IF ~x.present \/ Len(yCols) = 0 THEN ""
     ELSE "SELECT " \o join(sel, ", ") \o "\nFROM \"" \o table \o "\" AS t1"
            \o join([i \in 1..Len(secondaries) |-> joinText(i)], "")
            \o "\nGROUP BY " \o join(grp, ", ")
            \o "\nORDER BY " \o join(grp, ", ")

(***************************************************************************)
(* Result rows and the .then handler of getAggregatedData (lines 247-294). *)
(* A row or chart entry is a function from field names to values; every    *)
(* JavaScript value is written as the string of its property key, a number *)
(* as its decimal digits.                                                  *)
(***************************************************************************)
IsNum(v) == v \in {"0", "1", "2", "3", "4", "5", "6", "7", "8", "9"}

Num(v) ==
  CASE v = "1" -> 1 [] v = "2" -> 2 [] v = "3" -> 3 [] v = "4" -> 4
    [] v = "5" -> 5 [] v = "6" -> 6 [] v = "7" -> 7 [] v = "8" -> 8
    [] v = "9" -> 9 [] OTHER -> 0

\* row[k]; a missing field reads as undefined.
get(row, k) == IF k \in DOMAIN row THEN row[k] ELSE "undefined"

\* The row object the driver builds for the SELECT list of lines 87-108: one
\* field per output name, a later column of the same name replacing an earlier.
rowOf(body, xv, gv, yv) ==
  LET yKeys == {body.yAxes[i].key : i \in 1..Len(body.yAxes)}
      gKeys == IF groupByDiffers(body) THEN {body.groupBy.key} ELSE {}
  IN [f \in {"name"} \cup gKeys \cup yKeys |->
        IF f \in yKeys THEN yv ELSE IF f \in gKeys THEN gv ELSE xv]

\* pivot.find((e) => e.name === x): index of the entry, 0 if none.
findEntry(pivot, x) ==
  IF \E i \in 1..Len(pivot) : get(pivot[i], "name") = x
    THEN CHOOSE i \in 1..Len(pivot) :
           /\ get(pivot[i], "name") = x
           /\ \A j \in 1..(i-1) : get(pivot[j], "name") # x
    ELSE 0

\* Lines 252-263: resp.data.forEach from row i on.
RECURSIVE pivotFold(_, _, _, _, _)
pivotFold(data, i, gKey, yKey, pivot) ==
  IF i > Len(data) THEN pivot
  ELSE LET x == get(data[i], "name")
           g == get(data[i], gKey)
           y == get(data[i], yKey)
           at == findEntry(pivot, x)
       IN IF at = 0
            THEN pivotFold(data, i + 1, gKey, yKey,
                           Append(pivot, (g :> y) @@ ("name" :> x)))
          ELSE pivotFold(data, i + 1, gKey, yKey,
                         [pivot EXCEPT ![at] = (g :> y) @@ @])

\* Lines 266-268: Array.from(new Set(...)): distinct values, first occurrence order.
RECURSIVE distinctFrom(_, _, _, _)
distinctFrom(data, i, gKey, acc) ==
  IF i > Len(data) THEN acc
  ELSE LET g == get(data[i], gKey)
       IN distinctFrom(data, i + 1, gKey,
                       IF g \in Range(acc) THEN acc ELSE Append(acc, g))

\* Lines 272-273: groupKeys.reduce((acc, g) => acc + (a[g] || 0), 0).  Adding a
\* value that is not a number turns the accumulator into a string: nan.
RECURSIVE groupSum(_, _, _, _)
groupSum(entry, groupKeys, i, acc) ==
  IF i > Len(groupKeys) THEN acc
  ELSE LET v == get(entry, groupKeys[i])
       IN groupSum(entry, groupKeys, i + 1,
            IF v \in {"undefined", "null"} THEN acc
            ELSE IF IsNum(v) /\ ~acc.nan THEN [nan |-> FALSE, n |-> acc.n + Num(v)]
            ELSE [nan |-> TRUE, n |-> 0])

\* Insertion that also passes the elements of equal key.
RECURSIVE insertDescTiesMoved(_, _, _)
insertDescTiesMoved(sorted, e, k) ==
  IF k > 0 /\ ~sorted[k].k.nan /\ ~e.k.nan /\ e.k.n - sorted[k].k.n >= 0
    THEN insertDescTiesMoved(sorted, e, k - 1)
  ELSE SubSeq(sorted, 1, k) \o <<e>> \o SubSeq(sorted, k + 1, Len(sorted))

\* Array.prototype.sort with the comparator (a, b) => key(b) - key(a): stable;
\* a NaN difference compares equal.  Insertion of e below the first k elements.
RECURSIVE insertDesc(_, _, _)
insertDesc(sorted, e, k) ==
  IF k > 0 /\ ~sorted[k].k.nan /\ ~e.k.nan /\ e.k.n - sorted[k].k.n > 0
    THEN insertDesc(sorted, e, k - 1)
  ELSE SubSeq(sorted, 1, k) \o <<e>> \o SubSeq(sorted, k + 1, Len(sorted))

RECURSIVE sortDescFrom(_, _, _)
sortDescFrom(keyed, i, sorted) ==
  IF i > Len(keyed) THEN sorted
  ELSE sortDescFrom(keyed, i + 1, insertDesc(sorted, keyed[i], Len(sorted)))

sortDesc(keyed) ==
  LET sorted == sortDescFrom(keyed, 1, <<>>)
  IN [i \in 1..Len(sorted) |-> sorted[i].v]

\* Lines 249-288: [chartData, uniqueGroupKeys] set by a successful response, for
\* the effective group-by column and y columns the callback closed over.
processed(data, eff, yCols) ==
  IF eff.present /\ Len(data) > 0
    THEN LET pivot == pivotFold(data, 1, eff.key, yCols[1].key, <<>>)
             groupKeys == distinctFrom(data, 1, eff.key, <<>>)
         IN [chartData |->
               sortDesc([i \in 1..Len(pivot) |->
                  [k |-> groupSum(pivot[i], groupKeys, 1, [nan |-> FALSE, n |-> 0]),
                   v |-> pivot[i]]]),
             uniqueGroupKeys |-> groupKeys]
  ELSE [chartData |->
          IF Len(data) > 0 /\ Len(yCols) > 0
            THEN sortDesc([i \in 1..Len(data) |->
                   [k |-> [nan |-> FALSE, n |-> Num(get(data[i], yCols[1].key))],
                    v |-> data[i]]])
            ELSE data,
        uniqueGroupKeys |-> <<>>]

(***************************************************************************)
(* The database the session runs against, and App.tsx.                     *)
(***************************************************************************)
Catalog ==
  <<Schema("a", <<DbCol("id", "a", "number"), DbCol("region", "a", "string"),
                  DbCol("amt", "a", "number")>>),
    Schema("b", <<DbCol("id", "b", "number"), DbCol("qty", "b", "number")>>)>>

Tables == {Catalog[i].tableName : i \in 1..Len(Catalog)}

\* App.tsx lines 93-102: tableColumns, the columns fetched for the primary table.
tableColumns(t) ==
  IF findSchema(Catalog, t) = 0 THEN <<>>
  ELSE Catalog[findSchema(Catalog, t)].columns

\* App.tsx lines 117-140: the tables offered as secondary tables.
filteredSecondaryTablesForDropdown(table, schemas) ==
  IF table = "" \/ Len(tableColumns(table)) = 0 \/ Len(schemas) = 0 THEN {}
  ELSE {schemas[i].tableName : i \in
          {i \in 1..Len(schemas) :
             /\ schemas[i].tableName # table
             /\ \E j \in 1..Len(schemas[i].columns) :
                  \E k \in 1..Len(tableColumns(table)) :
                    /\ tableColumns(table)[k].key = schemas[i].columns[j].key
                    /\ tableColumns(table)[k].type = schemas[i].columns[j].type}}

\* App.tsx lines 167-171: allColumns, the columns that can be dragged.
allColumns(table, secondaries, schemas) ==
  Range(tableColumns(table))
    \cup UNION {Range(schemas[i].columns) : i \in
                 {i \in 1..Len(schemas) :
                    schemas[i].tableName \in Range(secondaries)}}

(***************************************************************************)
(* DynamicChartBuilder: one commit of the component.  An event yields new  *)
(* props and state; the effects of lines 62-71 and 197-313 then run in     *)
(* order on the rendered values, and the state they set is rendered again. *)
(***************************************************************************)
\* The request a run of the fetch effect issues, with what its callbacks close over.
pending(seq, table, secondaries, joins, x, yCols, g, agg) ==
  [seq |-> seq,
   body |-> buildRequest(table, secondaries, joins, x, yCols, g, agg),
   eff |-> effectiveGroupByColumn(g, x),
   yCols |-> yCols]

\* tablesTouched: tableName or secondaryTableNames was set (a new array even when
\* equal); yTouched: setYAxisColumns produced a new array.
Commit(table, secondaries, x, yCols, g, agg, tablesTouched, yTouched) ==
  LET joins == inferJoinColumns(table, secondaries, allTableSchemas)
      fetchRuns ==
        \/ tablesTouched
        \/ yTouched
        \/ x # xAxisColumn
        \/ agg # aggregationType
        \/ effectiveGroupByColumn(g, x)
             # effectiveGroupByColumn(groupByColumn, xAxisColumn)
      issues == fetchRuns /\ x.present /\ Len(yCols) > 0
  IN /\ issues => issued < MaxRequests
     /\ selectedTable' = table
     /\ secondaryTableNames' = secondaries
     /\ inferredJoinColumns' = joins
     /\ aggregationType' = agg
     /\ issued' = IF issues THEN issued + 1 ELSE issued
     /\ inflight' = IF issues
                      THEN inflight \cup {pending(issued + 1, table, secondaries,
                                                  joins, x, yCols, g, agg)}
                      ELSE inflight
     /\ loading' = IF issues THEN TRUE ELSE loading
     /\ IF tablesTouched
          THEN \* reset effect, then the fetch effect again on the cleared state
               /\ xAxisColumn' = NoColumn
               /\ yAxisColumns' = <<>>
               /\ groupByColumn' = NoColumn
               /\ chartData' = <<>>
               /\ generatedQuery' = ""
               /\ uniqueGroupKeys' = <<>>
               /\ error' = ""
               /\ committed' = 0
          ELSE /\ xAxisColumn' = x
               /\ yAxisColumns' = yCols
               /\ groupByColumn' = g
               /\ uniqueGroupKeys' = uniqueGroupKeys
               /\ IF issues
                    THEN /\ error' = ""
                         /\ generatedQuery' =
                              constructSqlQuery(table, secondaries, joins, x,
                                                yCols, g, agg)
                         /\ UNCHANGED <<chartData, committed>>
                  ELSE IF fetchRuns
                    THEN /\ chartData' = <<>>
                         /\ generatedQuery' = ""
                         /\ committed' = 0
                         /\ UNCHANGED error
                  ELSE UNCHANGED <<chartData, generatedQuery, error, committed>>
     /\ UNCHANGED <<allTableSchemas, apiVars>>

\* App.tsx lines 91-103: handleTableSelect, once the columns have been fetched.
handleTableSelect(t) ==
  Commit(t, <<>>, xAxisColumn, yAxisColumns, groupByColumn, aggregationType,
         TRUE, FALSE)

\* DynamicColumnsPanel lines 102-108 (part_017): the list with t checked or
\* unchecked.
toggled(names, t) ==
  IF t \in Range(names) THEN SelectSeq(names, LAMBDA n : n # t)
  ELSE Append(names, t)

\* The builder rendered with a new secondaryTableNames prop.
setSecondaryTableNames(names) ==
  Commit(selectedTable, names, xAxisColumn, yAxisColumns, groupByColumn,
         aggregationType, TRUE, FALSE)

\* DynamicColumnsPanel lines 98-111 (part_017): the checkbox of a secondary table,
\* shown for the tables of the dropdown list.
onSecondaryTablesChange(t) ==
  /\ t \in filteredSecondaryTablesForDropdown(selectedTable, allTableSchemas)
  /\ setSecondaryTableNames(toggled(secondaryTableNames, t))

\* handleDrop appending to the y columns whatever they hold.
handleDropAppends(col, axis) ==
  /\ col \in allColumns(selectedTable, secondaryTableNames, allTableSchemas)
  /\ CASE axis = "x" ->
            Commit(selectedTable, secondaryTableNames, col, yAxisColumns,
                   groupByColumn, aggregationType, FALSE, FALSE)
       [] axis = "y" ->
            Commit(selectedTable, secondaryTableNames, xAxisColumn,
                   Append(yAxisColumns, col), groupByColumn, aggregationType,
                   FALSE, TRUE)
       [] axis = "group" ->
            Commit(selectedTable, secondaryTableNames, xAxisColumn, yAxisColumns,
                   col, aggregationType, FALSE, FALSE)

\* Lines 316-323.
handleDrop(col, axis) ==
  /\ col \in allColumns(selectedTable, secondaryTableNames, allTableSchemas)
  /\ CASE axis = "x" ->
            Commit(selectedTable, secondaryTableNames, col, yAxisColumns,
                   groupByColumn, aggregationType, FALSE, FALSE)
       [] axis = "y" ->
            LET dup == \E i \in 1..Len(yAxisColumns) : yAxisColumns[i].key = col.key
            IN Commit(selectedTable, secondaryTableNames, xAxisColumn,
                      IF dup THEN yAxisColumns ELSE Append(yAxisColumns, col),
                      groupByColumn, aggregationType, FALSE, ~dup)
       [] axis = "group" ->
            Commit(selectedTable, secondaryTableNames, xAxisColumn, yAxisColumns,
                   col, aggregationType, FALSE, FALSE)

\* Lines 325-330; the remove button exists only on a column shown in the zone.
handleRemove(col, axis) ==
  CASE axis = "x" ->
         /\ col = xAxisColumn /\ col.present
         /\ Commit(selectedTable, secondaryTableNames, NoColumn, yAxisColumns,
                   groupByColumn, aggregationType, FALSE, FALSE)
    [] axis = "y" ->
         /\ col \in Range(yAxisColumns)
         /\ Commit(selectedTable, secondaryTableNames, xAxisColumn,
                   SelectSeq(yAxisColumns, LAMBDA c : c.key # col.key),
                   groupByColumn, aggregationType, FALSE, TRUE)
    [] axis = "group" ->
         /\ col = effectiveGroupByColumn(groupByColumn, xAxisColumn) /\ col.present
         /\ Commit(selectedTable, secondaryTableNames, xAxisColumn, yAxisColumns,
                   NoColumn, aggregationType, FALSE, FALSE)

\* Lines 489-514: the Add to Dashboard button, shown while chartData is not
\* empty; the fetch effect then runs on the cleared selection (lines 198-202).
addToDashboard ==
  /\ Len(chartData) > 0
  /\ xAxisColumn' = NoColumn
  /\ yAxisColumns' = <<>>
  /\ groupByColumn' = NoColumn
  /\ chartData' = <<>>
  /\ generatedQuery' = ""
  /\ error' = ""
  /\ committed' = 0
  /\ UNCHANGED <<uniqueGroupKeys, loading, inflight, issued, aggregationType,
                 inferredJoinColumns, appVars, apiVars>>

\* ChartControls: setAggregationType.
setAggregationType(agg) ==
  Commit(selectedTable, secondaryTableNames, xAxisColumn, yAxisColumns,
         groupByColumn, agg, FALSE, FALSE)

(***************************************************************************)
(* What the store returns for a statement, and the response to a request.  *)
(***************************************************************************)
XValues == {"A", "B", "null"}
GroupValues == {"east", "name"}
YValues == {"1", "2", "null"}

\* The result sets the store returns in the builder's runs.
DataChoices(body) ==
  {<<>>,
   <<rowOf(body, "A", "east", "1"), rowOf(body, "B", "east", "2"),
     rowOf(body, "B", "name", "1")>>}

\* The error the handler answers with before any statement is executed:
\* [status, error], status 0 when the statement is built and handed to _query.
handlerError(body) ==
  IF validation(body) # ""
    THEN [status |-> 400, error |-> validation(body)]
  ELSE IF ~buildQuery(body).ok
    THEN [status |-> 500,
          error |-> "Failed to aggregate data: " \o buildQuery(body).error]
  ELSE [status |-> 0, error |-> ""]

\* Lines 247-288 and 300-302: a success response reaches the builder.
ResolveSuccess(p, data) ==
  /\ p \in inflight
  /\ handlerError(p.body).status = 0
  /\ chartData' = processed(data, p.eff, p.yCols).chartData
  /\ uniqueGroupKeys' = processed(data, p.eff, p.yCols).uniqueGroupKeys
  /\ committed' = p.seq
  /\ loading' = FALSE
  /\ inflight' = inflight \ {p}
  /\ UNCHANGED <<xAxisColumn, yAxisColumns, groupByColumn, aggregationType, error,
                 generatedQuery, issued, inferredJoinColumns, appVars, apiVars>>

\* Lines 289-293 and 300-302: {success: false, error} reaches the builder (the
\* handler's 400 or 500, a failed execution, or fetchApi's own catch).
ResolveFailure(p) ==
  /\ p \in inflight
  /\ error' = IF handlerError(p.body).status # 0
                THEN handlerError(p.body).error
                ELSE "Failed to aggregate data: query failed"
  /\ chartData' = <<>>
  /\ uniqueGroupKeys' = <<>>
  /\ committed' = 0
  /\ loading' = FALSE
  /\ inflight' = inflight \ {p}
  /\ UNCHANGED <<xAxisColumn, yAxisColumns, groupByColumn, aggregationType,
                 generatedQuery, issued, inferredJoinColumns, appVars, apiVars>>

(***************************************************************************)
(* The aggregate handler as a process: the body is received, the statement *)
(* is built (or the request answered), _query settles.                     *)
(***************************************************************************)
NoStmt ==
  [ok |-> FALSE, error |-> "", query |-> "", queryParams |-> <<>>,
   aliases |-> EmptyObject, selectParts |-> <<>>, groupByParts |-> <<>>,
   joinParts |-> <<>>, whereParts |-> <<>>]

NoRes == [status |-> 0, success |-> FALSE, error |-> "", data |-> <<>>, query |-> ""]

\* Lines 16-148: validation and query construction, up to the await.
ApiHandle ==
  /\ apiPc = "received"
  /\ IF validation(apiBody) # ""
       THEN /\ apiPc' = "done"
            /\ apiStmt' = NoStmt
            /\ apiRes' = [status |-> 400, success |-> FALSE,
                          error |-> validation(apiBody), data |-> <<>>, query |-> ""]
     ELSE IF ~buildQuery(apiBody).ok
       THEN /\ apiPc' = "done"
            /\ apiStmt' = buildQuery(apiBody)
            /\ apiRes' = [status |-> 500, success |-> FALSE,
                          error |-> "Failed to aggregate data: "
                                      \o buildQuery(apiBody).error,
                          data |-> <<>>, query |-> ""]
     ELSE /\ apiPc' = "executing"
          /\ apiStmt' = buildQuery(apiBody)
          /\ apiRes' = NoRes
  /\ UNCHANGED <<apiBody, appVars, builderVars, inferredJoinColumns>>

\* Lines 148-153: the statement ran.
ApiQueryResolved(rows) ==
  /\ apiPc = "executing"
  /\ apiPc' = "done"
  /\ apiRes' = [status |-> 200, success |-> TRUE, error |-> "", data |-> rows,
                query |-> apiStmt.query]
  /\ UNCHANGED <<apiBody, apiStmt, appVars, builderVars, inferredJoinColumns>>

\* The rejected statement handed to the handler again.
ApiQueryRetried ==
  /\ apiPc = "executing"
  /\ apiPc' = "received"
  /\ UNCHANGED <<apiBody, apiStmt, apiRes, appVars, builderVars, inferredJoinColumns>>

\* The rejection leaving the handler without a response being written.
ApiQueryRejectedUncaught ==
  /\ apiPc = "executing"
  /\ apiPc' = "done"
  /\ UNCHANGED <<apiBody, apiStmt, apiRes, appVars, builderVars, inferredJoinColumns>>

\* Lines 154-162: _query rejected.
ApiQueryRejected ==
  /\ apiPc = "executing"
  /\ apiPc' = "done"
  /\ apiRes' = [status |-> 500, success |-> FALSE,
                error |-> "Failed to aggregate data: query failed",
                data |-> <<>>, query |-> ""]
  /\ UNCHANGED <<apiBody, apiStmt, appVars, builderVars, inferredJoinColumns>>

\* fetchApi and getAggregatedData (part_020 lines 61-89, 146-164) hand the
\* handler's response to the callbacks of the request that was sent.
ApiResponseDelivered(p) ==
  /\ apiPc = "done"
  /\ p \in inflight
  /\ p.body = apiBody
  /\ IF apiRes.success THEN ResolveSuccess(p, apiRes.data) ELSE ResolveFailure(p)

(***************************************************************************)
(* Specifications.                                                         *)
(***************************************************************************)
NoResp == [seq |-> 0, success |-> FALSE, data |-> <<>>, eff |-> NoColumn,
           yCols |-> <<>>]

NoBody ==
  [tableName |-> "", xAxis |-> Null, yAxes |-> <<>>, groupBy |-> Null,
   aggregationTypes |-> <<>>, filters |-> <<>>, secondaryTableNames |-> <<>>,
   joinColumns |-> EmptyObject]

AggregationTypes == {"SUM", "AVG"}

\* The elements of seq whose index is in idx, in order.
RECURSIVE subSeqAt(_, _, _)
subSeqAt(seq, idx, i) ==
  IF i > Len(seq) THEN <<>>
  ELSE (IF i \in idx THEN <<seq[i]>> ELSE <<>>) \o subSeqAt(seq, idx, i + 1)

\* fetchAllTableSchemas (App.tsx lines 63-80) pushes one schema for each name of
\* the tables list fetched when the App mounted; a table picked in DatabaseSelector,
\* which fetches its own list, need not be among them.
SchemaLists ==
  {subSeqAt(Catalog, idx, 1) : idx \in (SUBSET (1..Len(Catalog))) \ {{}}}

\* No value has reached the BIGINT parser.
NoNumber == [nan |-> TRUE, neg |-> FALSE, mag |-> <<>>]
NoPgValue == [kind |-> "none", num |-> NoNumber, text |-> <<>>]

PgIdle ==
  /\ pgText = <<>>
  /\ pgValue = NoPgValue

\* No column type has been classified.
NoKind == [builder |-> "", legacy |-> ""]

TypeIdle ==
  /\ rawType = <<>>
  /\ columnKind = NoKind

\* The Analytics tab is open and the schemas were loaded by one pass.
SchemasLoaded ==
  /\ activeTab = "charts"
  /\ tables = [i \in 1..Len(allTableSchemas) |-> allTableSchemas[i].tableName]
  /\ schemaFetches = {}
  /\ fetchesStarted = 1
  /\ schemaWrites = 1

ApiIdle ==
  /\ apiPc = "idle"
  /\ apiBody = NoBody
  /\ apiStmt = NoStmt
  /\ apiRes = NoRes

BuilderMounted ==
  /\ xAxisColumn = NoColumn
  /\ yAxisColumns = <<>>
  /\ groupByColumn = NoColumn
  /\ aggregationType = "SUM"
  /\ chartData = <<>>
  /\ loading = FALSE
  /\ error = ""
  /\ generatedQuery = ""
  /\ uniqueGroupKeys = <<>>
  /\ inflight = {}
  /\ issued = 0
  /\ committed = 0
  /\ lastResp = NoResp

\* The chart builder in a session of the App.
Init ==
  /\ ApiIdle
  /\ PgIdle
  /\ TypeIdle
  /\ BuilderMounted
  /\ selectedTable = ""
  /\ secondaryTableNames = <<>>
  /\ allTableSchemas \in SchemaLists
  /\ inferredJoinColumns = EmptyObject
  /\ SchemasLoaded

\* What the user of the modelled session does: the table selected as primary,
\* and the columns dragged to each axis.
PrimaryChoices == {"a"}

DropChoices ==
  {<<DbCol("region", "a", "string"), "x">>,
   <<DbCol("amt", "a", "number"), "y">>,
   <<DbCol("id", "b", "number"), "group">>,
   <<DbCol("region", "a", "string"), "group">>}

Next ==
  \/ \E t \in PrimaryChoices : handleTableSelect(t) /\ UNCHANGED <<lastResp, pgVars, typeVars, schemaVars>>
  \/ \E t \in Tables : onSecondaryTablesChange(t) /\ UNCHANGED <<lastResp, pgVars, typeVars, schemaVars>>
  \/ \E d \in DropChoices :
       /\ d[2] = "y" => Len(yAxisColumns) < MaxY
       /\ handleDrop(d[1], d[2])
       /\ UNCHANGED <<lastResp, pgVars, typeVars, schemaVars>>
  \/ \E d \in DropChoices : handleRemove(d[1], d[2]) /\ UNCHANGED <<lastResp, pgVars, typeVars, schemaVars>>
  \/ \E agg \in AggregationTypes : setAggregationType(agg) /\ UNCHANGED <<lastResp, pgVars, typeVars, schemaVars>>
  \/ \E p \in inflight : \E data \in DataChoices(p.body) :
       ResolveSuccess(p, data) /\ UNCHANGED <<lastResp, pgVars, typeVars, schemaVars>>
  \/ \E p \in inflight : ResolveFailure(p) /\ UNCHANGED <<lastResp, pgVars, typeVars, schemaVars>>
  \/ addToDashboard /\ UNCHANGED <<lastResp, pgVars, typeVars, schemaVars>>

Spec == Init /\ [][Next]_vars

(***************************************************************************)
(* SpecApi: the handler on the bodies a client can post, and on the bodies *)
(* the chart builder builds from a selection.                              *)
(***************************************************************************)
Filter(k, t, op, v) == [key |-> k, tableName |-> t, operator |-> op, value |-> v]

JoinChoices ==
  {EmptyObject, "b" :> "id", "c" :> "id", ("b" :> "id") @@ ("c" :> "ref")}

\* Bodies that exercise the validation: missing and malformed fields.
ShapeBodies ==
  [tableName : {"", "a"},
   xAxis : {Null, Col("region", "a"), Col("", "a"), Col("region", "")},
   yAxes : SeqsUpTo({Col("qty", "b"), Col("qty", ""), Null}, MaxY),
   groupBy : {Null, Col("id", "a"), Col("id", "")},
   aggregationTypes : SeqsUpTo({"SUM", "median"}, MaxY),
   filters : {<<>>},
   secondaryTableNames : {<<"b">>},
   joinColumns : {"b" :> "id"}]

\* Bodies that exercise aliases, joins and filters.
TableBodies ==
  [tableName : {"a"},
   xAxis : {Col("region", "a"), Col("region", "b"), Col("region", "zz")},
   yAxes : {<<Col("region", "a")>>, <<Col("qty", "b")>>},
   groupBy : {Null, Col("region", "b"), Col("id", "c")},
   aggregationTypes : {<<"SUM">>, <<"count">>},
   filters : SeqsUpTo({Filter("region", "a", "=", "v1"),
                       Filter("qty", "b", ">", "v2"),
                       Filter("amt", "a", "BETWEEN", "1,9")}, MaxFilters),
   secondaryTableNames : SeqsUpTo({"b", "c"}, MaxSecondary),
   joinColumns : JoinChoices]

\* Selections of the chart builder whose request reaches the handler.
BuilderSelections ==
  [x : {DbCol("region", "a", "string"), DbCol("id", "a", "number")},
   yCols : {s \in SeqsUpTo({DbCol("region", "a", "string"),
                            DbCol("qty", "b", "number")}, MaxY) :
              Len(s) > 0 /\ NoDup(s)},
   g : {NoColumn, DbCol("region", "a", "string"), DbCol("id", "b", "number")},
   agg : AggregationTypes,
   secondaries : {<<>>, <<"b">>}]

\* The builder has issued the request of selection sel and awaits the response.
BuilderAwaits(sel) ==
  LET joins == inferJoinColumns("a", sel.secondaries, Catalog)
  IN /\ selectedTable = "a"
     /\ secondaryTableNames = sel.secondaries
     /\ inferredJoinColumns = joins
     /\ xAxisColumn = sel.x
     /\ yAxisColumns = sel.yCols
     /\ groupByColumn = sel.g
     /\ aggregationType = sel.agg
     /\ chartData = <<>>
     /\ loading = TRUE
     /\ error = ""
     /\ generatedQuery = constructSqlQuery("a", sel.secondaries, joins, sel.x,
                                           sel.yCols, sel.g, sel.agg)
     /\ uniqueGroupKeys = <<>>
     /\ inflight = {pending(1, "a", sel.secondaries, joins, sel.x, sel.yCols,
                            sel.g, sel.agg)}
     /\ issued = 1
     /\ committed = 0
     /\ lastResp = NoResp

InitApi ==
  /\ PgIdle
  /\ TypeIdle
  /\ apiPc = "received"
  /\ apiStmt = NoStmt
  /\ apiRes = NoRes
  /\ allTableSchemas = Catalog
  /\ \/ /\ BuilderMounted
        /\ selectedTable = ""
        /\ secondaryTableNames = <<>>
        /\ inferredJoinColumns = EmptyObject
        /\ apiBody \in ShapeBodies \cup TableBodies
     \/ \E sel \in BuilderSelections :
          /\ BuilderAwaits(sel)
          /\ apiBody = buildRequest("a", sel.secondaries,
                                    inferJoinColumns("a", sel.secondaries, Catalog),
                                    sel.x, sel.yCols, sel.g, sel.agg)
  /\ SchemasLoaded

NextApi ==
  \/ ApiHandle /\ UNCHANGED <<lastResp, pgVars, typeVars, schemaVars>>
  \/ \E rows \in DataChoices(apiBody) : ApiQueryResolved(rows) /\ UNCHANGED <<lastResp, pgVars, typeVars, schemaVars>>
  \/ ApiQueryRejected /\ UNCHANGED <<lastResp, pgVars, typeVars, schemaVars>>
  \/ \E p \in inflight : ApiResponseDelivered(p) /\ UNCHANGED <<lastResp, pgVars, typeVars, schemaVars>>

SpecApi == InitApi /\ [][NextApi]_vars

(***************************************************************************)
(* Properties of the chart builder session (Spec).                         *)
(***************************************************************************)
\* C1: last-request-wins.  Once no request is in flight, the chart data on view
\* (committed is the sequence number of the request whose response set it) are
\* those of the most recently issued request, in whatever order the responses
\* arrived.
C1_LastRequestWins ==
  (inflight = {} /\ committed # 0) => committed = issued

\* C4: a secondary table without an inferred join column is dropped from the
\* request: every request in flight names only secondary tables that have a join
\* column, and the handler builds its statement instead of failing.
C4_UnjoinableSecondaryDropped ==
  \A p \in inflight :
    /\ \A t \in Range(p.body.secondaryTableNames) :
         joinColumnOf(p.body.joinColumns, t) # ""
    /\ handlerError(p.body).status = 0

(***************************************************************************)
(* Properties of the aggregate handler (SpecApi).                          *)
(***************************************************************************)
Handled == apiPc \in {"executing", "done"}

\* The statement was generated.
Built == Handled /\ apiStmt.ok

\* The alias of the table a column reference names: t1 for the primary table, the
\* alias of the secondary table, "" when it names neither.
aliasOf(body, col) ==
  IF col.tableName = body.tableName THEN primaryAlias
  ELSE IF col.tableName \in Range(body.secondaryTableNames)
    THEN tableAliases(body.secondaryTableNames)[col.tableName]
  ELSE ""

qualifiedBy(alias, col) == alias \o "." \o quoted(col.key)

\* The position in selectParts of the i-th y column, and the SELECT item of an
\* aggregation of a qualified column.
ySelectIndex(body, i) == 1 + (IF groupByDiffers(body) THEN 1 ELSE 0) + i

ySelect(agg, qualifiedCol, col) ==
  "CAST(" \o agg \o "(" \o qualifiedCol \o ") AS BIGINT) AS " \o quoted(col.key)

\* C2: every column reference of a request (x, each y, group-by, each filter) is
\* qualified with the alias of the table its tableName names, and a reference to
\* a table that is neither the primary nor a declared secondary table fails the
\* request.
C2_QualifiedByOwnTable ==
  (Handled /\ validation(apiBody) = "") =>
    LET b == apiBody
        unresolved ==
          \/ aliasOf(b, b.xAxis) = ""
          \/ \E i \in 1..Len(b.yAxes) : aliasOf(b, b.yAxes[i]) = ""
          \/ groupByDiffers(b) /\ aliasOf(b, b.groupBy) = ""
          \/ \E i \in 1..Len(b.filters) : aliasOf(b, b.filters[i]) = ""
    IN IF unresolved THEN ~apiStmt.ok
       ELSE apiStmt.ok =>
              /\ apiStmt.groupByParts[1] = qualifiedBy(aliasOf(b, b.xAxis), b.xAxis)
              /\ groupByDiffers(b) =>
                   apiStmt.groupByParts[2] = qualifiedBy(aliasOf(b, b.groupBy), b.groupBy)
              /\ \A i \in 1..Len(b.yAxes) :
                   apiStmt.selectParts[ySelectIndex(b, i)] =
                     ySelect(toUpperCase(b.aggregationTypes[i]),
                             qualifiedBy(aliasOf(b, b.yAxes[i]), b.yAxes[i]),
                             b.yAxes[i])
              /\ \A i \in 1..Len(b.filters) :
                   apiStmt.whereParts[i] =
                     qualifiedBy(aliasOf(b, b.filters[i]), b.filters[i])
                       \o " " \o b.filters[i].operator \o " $" \o ToString(i)

\* C3: a statement generated for N secondary tables has the N+1 aliases
\* t1..t{N+1}, and the i-th declared secondary table is joined as t{i+1}.
C3_AliasesInDeclarationOrder ==
  Built =>
    LET names == apiBody.secondaryTableNames
        alias(i) == "t" \o ToString(i + 1)
    IN /\ Len(apiStmt.joinParts) = Len(names)
       /\ \A i \in 1..Len(names) :
            apiStmt.joinParts[i] =
              " INNER JOIN " \o quoted(names[i]) \o " AS " \o alias(i) \o " ON "
                \o primaryAlias \o "." \o quoted(apiBody.joinColumns[names[i]])
                \o " = " \o alias(i) \o "."
                \o quoted(apiBody.joinColumns[names[i]])
       /\ {primaryAlias} \cup {apiStmt.aliases[t] : t \in DOMAIN apiStmt.aliases}
            = {"t" \o ToString(k) : k \in 1..(Len(names) + 1)}

\* C5: a statement generated for K filters, none of them BETWEEN, has K
\* parameters; the i-th filter is rendered with the placeholder $i, and the i-th
\* parameter is the i-th filter's value.
C5_PlaceholdersMatchParams ==
  (Built /\ \A i \in 1..Len(apiBody.filters) :
              apiBody.filters[i].operator # "BETWEEN") =>
    LET filters == apiBody.filters
    IN /\ Len(apiStmt.queryParams) = Len(filters)
       /\ Len(apiStmt.whereParts) = Len(filters)
       /\ \A i \in 1..Len(filters) :
            /\ apiStmt.queryParams[i] = filters[i].value
            /\ apiStmt.whereParts[i] =
                 getQualifiedColumn(filters[i], apiStmt.aliases).v
                   \o " " \o filters[i].operator \o " $" \o ToString(i)

C5_Witness ==
  /\ Built
  /\ apiPc = "executing"
  /\ Len(apiBody.filters) = 2
  /\ apiStmt.queryParams = <<"v2", "v1">>
  /\ apiStmt.whereParts = <<"t1.\"qty\" > $1", "t1.\"region\" = $2">>

\* The malformed requests: no primary table, no x-axis or one lacking key or
\* tableName, no y entry, a y entry lacking key or tableName, or yAxes and
\* aggregationTypes of different lengths.
Malformed(body) ==
  \/ body.tableName = ""
  \/ ~body.xAxis.present
  \/ body.xAxis.key = ""
  \/ body.xAxis.tableName = ""
  \/ Len(body.yAxes) = 0
  \/ \E i \in 1..Len(body.yAxes) :
       ~body.yAxes[i].present \/ body.yAxes[i].key = "" \/ body.yAxes[i].tableName = ""
  \/ Len(body.yAxes) # Len(body.aggregationTypes)

\* C6: a malformed request is answered 400 with {success: false, error}; no
\* statement is generated for it and none is executed.
C6_MalformedRejected ==
  Malformed(apiBody) =>
    /\ apiPc # "executing"
    /\ apiPc = "done" =>
         /\ apiRes.status = 400
         /\ ~apiRes.success
         /\ apiRes.error # ""
         /\ apiStmt = NoStmt

C6_Witness ==
  /\ apiPc = "done"
  /\ apiRes.status = 400
  /\ apiRes.error = "Invalid yAxis column"
  /\ apiBody.tableName = "a"
  /\ Len(apiBody.yAxes) = 2
  /\ apiBody.yAxes[1] = Col("qty", "b")
  /\ apiBody.yAxes[2] = Col("qty", "")

\* C7: a request whose groupBy.key equals xAxis.key gets the statement and the
\* parameters of the same request without groupBy; the group-by column is neither
\* selected nor grouped on.
C7_GroupByOnXIsOmitted ==
  (/\ Handled
   /\ validation(apiBody) = ""
   /\ apiBody.groupBy.present
   /\ apiBody.groupBy.key = apiBody.xAxis.key) =>
    LET omitted == buildQuery([apiBody EXCEPT !.groupBy = Null])
    IN /\ apiStmt.ok = omitted.ok
       /\ apiStmt.error = omitted.error
       /\ apiStmt.query = omitted.query
       /\ apiStmt.queryParams = omitted.queryParams
       /\ apiStmt.ok =>
            /\ Len(apiStmt.selectParts) = 1 + Len(apiBody.yAxes)
            /\ Len(apiStmt.groupByParts) = 1

C7_Witness ==
  /\ Built
  /\ apiBody.xAxis = Col("region", "a")
  /\ apiBody.groupBy = Col("region", "b")
  /\ apiBody.secondaryTableNames = <<"b">>
  /\ apiStmt.groupByParts = <<"t1.\"region\"">>

\* The type the catalog gives the column a reference names, "" if it has none.
typeInCatalog(col) ==
  LET found == {c \in UNION {Range(Catalog[i].columns) : i \in 1..Len(Catalog)} :
                  c.key = col.key /\ c.tableName = col.tableName}
  IN IF found = {} THEN "" ELSE (CHOOSE c \in found : TRUE).type

\* C8 as stated: in every generated statement a y column whose normalized type is
\* string is aggregated with COUNT, whatever aggregation the request names.
C8_GeneratorCountsStrings ==
  Built =>
    \A i \in 1..Len(apiBody.yAxes) :
      (/\ typeInCatalog(apiBody.yAxes[i]) # ""
       /\ normalizeType(typeInCatalog(apiBody.yAxes[i])) = "string") =>
        apiStmt.selectParts[ySelectIndex(apiBody, i)] =
          ySelect("COUNT",
                  getQualifiedColumn(apiBody.yAxes[i], apiStmt.aliases).v,
                  apiBody.yAxes[i])

\* C8: the statement generated for a request of the chart builder aggregates a y
\* column of normalized type string with COUNT and every other y column with the
\* selected aggregation type; the handler itself emits, for every request, the
\* aggregation the request names, upper-cased.
C8_BuilderCountsStrings ==
  Built =>
    /\ \A i \in 1..Len(apiBody.yAxes) :
         apiStmt.selectParts[ySelectIndex(apiBody, i)] =
           ySelect(toUpperCase(apiBody.aggregationTypes[i]),
                   getQualifiedColumn(apiBody.yAxes[i], apiStmt.aliases).v,
                   apiBody.yAxes[i])
    /\ xAxisColumn.present =>
         /\ Len(apiBody.yAxes) = Len(yAxisColumns)
         /\ \A i \in 1..Len(yAxisColumns) :
              apiStmt.selectParts[ySelectIndex(apiBody, i)] =
                ySelect(IF normalizeType(yAxisColumns[i].type) = "string"
                          THEN "COUNT" ELSE aggregationType,
                        getQualifiedColumn(apiBody.yAxes[i], apiStmt.aliases).v,
                        apiBody.yAxes[i])

C8_Witness ==
  /\ Built
  /\ xAxisColumn.present
  /\ aggregationType = "AVG"
  /\ yAxisColumns = <<DbCol("qty", "b", "number"), DbCol("region", "a", "string")>>
  /\ apiStmt.selectParts[ySelectIndex(apiBody, 1)]
       = "CAST(AVG(t1.\"qty\") AS BIGINT) AS \"qty\""
  /\ apiStmt.selectParts[ySelectIndex(apiBody, 2)]
       = "CAST(COUNT(t1.\"region\") AS BIGINT) AS \"region\""

(***************************************************************************)
(* SpecInfer: join inference on the schemas a database can have.           *)
(***************************************************************************)
InferKeys == {"id", "ref", "day"}
InferTypes == {"number", "string"}

\* The column lists of table t: up to MaxCols columns of distinct names.
ColumnLists(t) ==
  {cols \in SeqsUpTo({DbCol(k, t, ty) : k \in InferKeys, ty \in InferTypes}, MaxCols) :
     \A i, j \in 1..Len(cols) : i # j => cols[i].key # cols[j].key}

\* allTableSchemas: a and c may be missing (tables that were not in the list of
\* names the pass ran over).
InferSchemaLists ==
  {(IF hasA THEN <<Schema("a", ca)>> ELSE <<>>)
     \o <<Schema("b", cb)>>
     \o (IF hasC
           THEN <<Schema("c", <<DbCol("ref", "c", "string"),
                                DbCol("id", "c", "number")>>)>>
           ELSE <<>>) :
   hasA \in BOOLEAN, hasC \in BOOLEAN,
   ca \in ColumnLists("a"), cb \in ColumnLists("b")}

InitInfer ==
  /\ ApiIdle
  /\ PgIdle
  /\ TypeIdle
  /\ BuilderMounted
  /\ selectedTable = "a"
  /\ secondaryTableNames = <<>>
  /\ allTableSchemas \in InferSchemaLists
  /\ inferredJoinColumns = EmptyObject
  /\ SchemasLoaded

NextInfer ==
  \E t \in {"b", "c"} :
    /\ Len(toggled(secondaryTableNames, t)) <= MaxSecondary
    /\ setSecondaryTableNames(toggled(secondaryTableNames, t))
    /\ UNCHANGED <<lastResp, pgVars, typeVars, schemaVars>>

SpecInfer == InitInfer /\ [][NextInfer]_vars

\* The positions of the primary columns that have a column of equal key and equal
\* type among sCols.
matching(pCols, sCols) ==
  {i \in 1..Len(pCols) :
     \E j \in 1..Len(sCols) :
       pCols[i].key = sCols[j].key /\ pCols[i].type = sCols[j].type}

\* C9: for each secondary table the inferred join column is the key of the first
\* primary column, in the order of the primary schema, that has a column of equal
\* key and type in the secondary schema; there is none when no pair matches (or a
\* schema is missing); the result is the same when the inference is run again,
\* and the same as when the table is the only secondary table.
C9_FirstMatchInPrimaryOrder ==
  LET p == findSchema(allTableSchemas, selectedTable)
  IN /\ DOMAIN inferredJoinColumns \subseteq Range(secondaryTableNames)
     /\ \A s \in Range(secondaryTableNames) :
          LET q == findSchema(allTableSchemas, s)
              m == IF p = 0 \/ q = 0 THEN {}
                   ELSE matching(allTableSchemas[p].columns, allTableSchemas[q].columns)
          IN /\ IF m = {} THEN s \notin DOMAIN inferredJoinColumns
                ELSE /\ s \in DOMAIN inferredJoinColumns
                     /\ inferredJoinColumns[s] =
                          allTableSchemas[p].columns[
                            CHOOSE i \in m : \A k \in m : i <= k].key
             /\ joinColumnOf(inferredJoinColumns, s)
                  = joinColumnOf(inferJoinColumns(selectedTable, <<s>>,
                                                  allTableSchemas), s)
     /\ inferredJoinColumns
          = inferJoinColumns(selectedTable, secondaryTableNames, allTableSchemas)

C9_Witness ==
  /\ secondaryTableNames = <<"c", "b">>
  /\ Len(allTableSchemas) = 3
  /\ allTableSchemas[1].columns
       = <<DbCol("id", "a", "string"), DbCol("ref", "a", "number")>>
  /\ allTableSchemas[2].columns
       = <<DbCol("ref", "b", "number"), DbCol("id", "b", "string")>>
  /\ inferredJoinColumns = ("b" :> "id")

(***************************************************************************)
(* SpecReshape: the response handler on the result sets a grouped or an     *)
(* ungrouped statement can return.                                         *)
(***************************************************************************)
\* Up to MaxRows rows, one per group of the statement's GROUP BY.
ReshapeRows(body) ==
  {rows \in SeqsUpTo({rowOf(body, xv, gv, yv) :
                        xv \in XValues, gv \in GroupValues, yv \in YValues},
                     MaxRows) :
     \A i, j \in 1..Len(rows) :
       i # j => \/ get(rows[i], "name") # get(rows[j], "name")
                \/ /\ groupByDiffers(body)
                   /\ get(rows[i], body.groupBy.key) # get(rows[j], body.groupBy.key)}

ReshapeSelections ==
  [x : {DbCol("region", "a", "string")},
   yCols : {<<DbCol("qty", "b", "number")>>},
   g : {NoColumn, DbCol("id", "b", "number")},
   agg : {"SUM"},
   secondaries : {<<"b">>}]

InitReshape ==
  /\ ApiIdle
  /\ PgIdle
  /\ TypeIdle
  /\ allTableSchemas = Catalog
  /\ \E sel \in ReshapeSelections : BuilderAwaits(sel)
  /\ SchemasLoaded

NextReshape ==
  \/ \E p \in inflight : \E data \in ReshapeRows(p.body) :
       /\ ResolveSuccess(p, data)
       /\ lastResp' = [seq |-> p.seq, success |-> TRUE, data |-> data,
                       eff |-> p.eff, yCols |-> p.yCols]
       /\ UNCHANGED <<pgVars, typeVars, schemaVars>>
  \/ \E p \in inflight :
       /\ ResolveFailure(p)
       /\ lastResp' = [seq |-> p.seq, success |-> FALSE, data |-> <<>>,
                       eff |-> p.eff, yCols |-> p.yCols]
       /\ UNCHANGED <<pgVars, typeVars, schemaVars>>

SpecReshape == InitReshape /\ [][NextReshape]_vars

\* C10: after a grouped response, the chart data have exactly one row per distinct
\* x value of the rows received, its name field being that x value; for every row
\* received, the chart row of its x value has the field named by the row's group
\* value set to the row's value of the first y column; uniqueGroupKeys lists the
\* distinct group values of the rows received.
C10_PivotCorrect ==
  (lastResp.success /\ lastResp.eff.present /\ Len(lastResp.data) > 0) =>
    LET data == lastResp.data
        gKey == lastResp.eff.key
        yKey == lastResp.yCols[1].key
        xs == {get(data[r], "name") : r \in 1..Len(data)}
    IN /\ Len(chartData) = Cardinality(xs)
       /\ \A x \in xs : \E i \in 1..Len(chartData) : get(chartData[i], "name") = x
       /\ \A r \in 1..Len(data) :
            \E i \in 1..Len(chartData) :
              /\ get(chartData[i], "name") = get(data[r], "name")
              /\ get(chartData[i], get(data[r], gKey)) = get(data[r], yKey)
       /\ Range(uniqueGroupKeys) = {get(data[r], gKey) : r \in 1..Len(data)}
       /\ NoDup(uniqueGroupKeys)

\* A row that has its x value and the value of the first y column.
hasRequiredValues(row, yKey) ==
  /\ get(row, "name") \notin {"null", "undefined", ""}
  /\ get(row, yKey) \notin {"null", "undefined"}

\* C11: rows whose x value is null or empty, or whose y value is null or
\* undefined, are dropped before reshaping, grouped or not: the chart data are
\* those reshaped from the remaining rows.
C11_NullRowsDropped ==
  lastResp.success =>
    chartData =
      processed(SelectSeq(lastResp.data,
                          LAMBDA r : hasRequiredValues(r, lastResp.yCols[1].key)),
                lastResp.eff, lastResp.yCols).chartData

\* The value of group g in a chart row: the number stored under g, 0 when the row
\* has no value for that group.
groupValue(row, g) == IF IsNum(get(row, g)) THEN Num(get(row, g)) ELSE 0

RECURSIVE groupTotal(_, _, _)
groupTotal(row, groupKeys, i) ==
  IF i > Len(groupKeys) THEN 0
  ELSE groupValue(row, groupKeys[i]) + groupTotal(row, groupKeys, i + 1)

\* The least position of row in rows.
firstIndex(rows, row) == CHOOSE i \in 1..Len(rows) :
                           rows[i] = row /\ \A j \in 1..(i - 1) : rows[j] # row

\* C12: after a grouped response the chart rows are the pivoted rows in
\* descending order of the sum of their group values, a missing group counting
\* as 0, and rows of equal sum are in their order in the pivot.
C12_GroupedSortedBySum ==
  (lastResp.success /\ lastResp.eff.present /\ Len(lastResp.data) > 0) =>
    LET pivot == pivotFold(lastResp.data, 1, lastResp.eff.key,
                           lastResp.yCols[1].key, <<>>)
        total(row) == groupTotal(row, uniqueGroupKeys, 1)
    IN /\ Len(chartData) = Len(pivot)
       /\ Range(chartData) = Range(pivot)
       /\ \A i, j \in 1..Len(chartData) :
            i < j =>
              /\ total(chartData[i]) >= total(chartData[j])
              /\ total(chartData[i]) = total(chartData[j]) =>
                   firstIndex(pivot, chartData[i]) <= firstIndex(pivot, chartData[j])

\* Number(row[yKey]) || 0
firstYValue(row, yKey) == IF IsNum(get(row, yKey)) THEN Num(get(row, yKey)) ELSE 0

\* C13: after an ungrouped response the chart rows are the rows received, none
\* added, removed or altered, in descending order of the value of the first y
\* column, rows of equal value in the order received.
C13_UngroupedSortedByFirstY ==
  (lastResp.success /\ ~lastResp.eff.present) =>
    LET data == lastResp.data
        yKey == lastResp.yCols[1].key
    IN /\ Len(chartData) = Len(data)
       /\ Range(chartData) = Range(data)
       /\ \A i, j \in 1..Len(chartData) :
            i < j =>
              /\ firstYValue(chartData[i], yKey) >= firstYValue(chartData[j], yKey)
              /\ firstYValue(chartData[i], yKey) = firstYValue(chartData[j], yKey) =>
                   firstIndex(data, chartData[i]) < firstIndex(data, chartData[j])

C13_Witness ==
  /\ lastResp.success
  /\ ~lastResp.eff.present
  /\ lastResp.data = <<("name" :> "A") @@ ("qty" :> "1"),
                       ("name" :> "null") @@ ("qty" :> "2"),
                       ("name" :> "B") @@ ("qty" :> "1")>>
  /\ chartData = <<("name" :> "null") @@ ("qty" :> "2"),
                   ("name" :> "A") @@ ("qty" :> "1"),
                   ("name" :> "B") @@ ("qty" :> "1")>>

\* Array.isArray(value) and the elements of the array, for the filter values of
\* the bodies above: the array [1, 9] is written "1,9".
isArray(value) == value = "1,9"

elements(value) == IF value = "1,9" THEN <<"1", "9">> ELSE <<>>

\* The values the first n filters contribute to the parameter list: both
\* elements of the array of a BETWEEN filter, the value of any other filter.
RECURSIVE consumed(_, _)
consumed(filters, n) ==
  IF n = 0 THEN <<>>
  ELSE consumed(filters, n - 1)
         \o (IF filters[n].operator = "BETWEEN" /\ isArray(filters[n].value)
               THEN elements(filters[n].value)
               ELSE <<filters[n].value>>)

\* C14: a BETWEEN filter with a two-element array appends both elements to the
\* parameter list and is rendered `BETWEEN $k AND $k+1`, k the position of the
\* first of them; the other filters keep the running numbering.
C14_BetweenTakesTwoPlaceholders ==
  Built =>
    LET filters == apiBody.filters
    IN /\ apiStmt.queryParams = consumed(filters, Len(filters))
       /\ \A i \in 1..Len(filters) :
            LET k == Len(consumed(filters, i - 1)) + 1
                column == getQualifiedColumn(filters[i], apiStmt.aliases).v
            IN apiStmt.whereParts[i] =
                 IF filters[i].operator = "BETWEEN" /\ isArray(filters[i].value)
                   THEN column \o " BETWEEN $" \o ToString(k)
                          \o " AND $" \o ToString(k + 1)
                   ELSE column \o " " \o filters[i].operator \o " $" \o ToString(k)

\* C15: the statement of a request is executed at most once (execution is
\* entered only from the received request, and once it has settled the handler
\* neither runs nor answers again), no request is issued in reaction to a
\* response and a failure changes none of the selections a new request would
\* be issued for, and a failed execution returns no rows: the response carries
\* none and the builder is left with none.
C15_ExecutedOnceNoPartialRows ==
  [][/\ apiPc' = "received" => apiPc = "received"
     /\ apiPc = "executing" => apiPc' \in {"executing", "done"}
     /\ apiPc = "done" => apiPc' = "done" /\ apiRes' = apiRes /\ apiStmt' = apiStmt
     /\ issued' = issued
     /\ (apiPc' = "done" /\ ~apiRes'.success) => apiRes'.data = <<>>
     /\ (inflight' # inflight /\ ~apiRes.success) =>
          /\ chartData' = <<>>
          /\ UNCHANGED <<selectedTable, secondaryTableNames, inferredJoinColumns,
                         xAxisColumn, yAxisColumns, groupByColumn,
                         aggregationType>>]_vars

C15_Witness ==
  /\ apiPc = "done"
  /\ apiStmt.ok
  /\ apiRes.status = 500
  /\ inflight = {}
  /\ issued = 1
  /\ ~loading
  /\ error = "Failed to aggregate data: query failed"
  /\ chartData = <<>>

referencedTables(body) ==
  {body.xAxis.tableName}
    \cup {body.yAxes[i].tableName : i \in 1..Len(body.yAxes)}
    \cup (IF body.groupBy.present THEN {body.groupBy.tableName} ELSE {})
    \cup {body.filters[i].tableName : i \in 1..Len(body.filters)}

unjoinedTables(body) ==
  {t \in Range(body.secondaryTableNames) : joinColumnOf(body.joinColumns, t) = ""}

\* C17: a well-formed request that references (x, a y, group-by or a filter) a
\* secondary table left without a join column is answered 400, and no statement
\* is executed for it.
C17_UnresolvableReferenceIs400 ==
  (Handled /\ validation(apiBody) = ""
     /\ unjoinedTables(apiBody) \cap referencedTables(apiBody) # {})
    => apiPc = "done" /\ apiRes.status = 400

\* Values a filter of a second request may carry in place of the first one's.
OtherFilterValues == {"w", "x' OR '1'='1"}

\* The request with the values of its filters replaced by vals, all else equal.
withFilterValues(body, vals) ==
  [body EXCEPT !.filters = [i \in 1..Len(body.filters) |->
                              [body.filters[i] EXCEPT !.value = vals[i]]]]

\* C18: the parameter list of a generated statement is the filter values in
\* order, and the same request with any other filter values generates the same
\* SQL text, with those values as its parameter list.
C18_FilterValuesOnlyInParams ==
  Built =>
    /\ apiStmt.queryParams =
         [i \in 1..Len(apiBody.filters) |-> apiBody.filters[i].value]
    /\ \A vals \in [1..Len(apiBody.filters) -> OtherFilterValues] :
         LET other == buildQuery(withFilterValues(apiBody, vals))
         IN /\ other.ok
            /\ other.query = apiStmt.query
            /\ other.queryParams = vals

C18_Witness ==
  /\ Built
  /\ apiStmt.queryParams = <<"v1", "v2">>
  /\ LET other == buildQuery(withFilterValues(apiBody, <<"x' OR '1'='1", "w">>))
     IN /\ other.query = apiStmt.query
        /\ other.queryParams = <<"x' OR '1'='1", "w">>

MaxDigits == 2

DigitChars == <<"0", "1", "2", "3", "4", "5", "6", "7", "8", "9">>

isDigit(c) == \E d \in 0..9 : DigitChars[d + 1] = c

digitOf(c) == CHOOSE d \in 0..9 : DigitChars[d + 1] = c

RECURSIVE stripZeros(_)
stripZeros(ds) ==
  IF Len(ds) > 1 /\ ds[1] = 0 THEN stripZeros(Tail(ds)) ELSE ds

\* a < b on magnitudes.
less(a, b) ==
  \/ Len(a) < Len(b)
  \/ /\ Len(a) = Len(b)
     /\ \E i \in 1..Len(a) : a[i] < b[i] /\ \A j \in 1..(i - 1) : a[j] = b[j]

\* a divided by two: quotient q and remainder r.
RECURSIVE halveFrom(_, _, _, _)
halveFrom(a, i, carry, acc) ==
  IF i > Len(a) THEN [q |-> stripZeros(acc), r |-> carry]
  ELSE LET cur == 10 * carry + a[i]
       IN halveFrom(a, i + 1, cur % 2, Append(acc, cur \div 2))

halve(a) == halveFrom(a, 1, 0, <<>>)

RECURSIVE doubleFrom(_, _, _, _)
doubleFrom(a, i, carry, acc) ==
  IF i = 0 THEN (IF carry > 0 THEN <<carry>> \o acc ELSE acc)
  ELSE LET cur == 2 * a[i] + carry
       IN doubleFrom(a, i - 1, cur \div 10, <<cur % 10>> \o acc)

double(a) == doubleFrom(a, Len(a), 0, <<>>)

RECURSIVE incrementFrom(_, _)
incrementFrom(a, i) ==
  IF i = 0 THEN <<1>> \o a
  ELSE IF a[i] < 9 THEN [a EXCEPT ![i] = a[i] + 1]
  ELSE incrementFrom([a EXCEPT ![i] = 0], i - 1)

increment(a) == incrementFrom(a, Len(a))

isOdd(a) == a[Len(a)] % 2 = 1

\* 2^53: below it every integer is a Number.
TwoTo53 == <<9, 0, 0, 7, 1, 9, 9, 2, 5, 4, 7, 4, 0, 9, 9, 2>>

\* The 53-bit significand of a magnitude: halved until below 2^53, keeping the
\* exponent k, the bit shifted out last and whether a 1 was shifted out before.
RECURSIVE significand(_, _, _, _)
significand(m, k, guard, sticky) ==
  IF less(m, TwoTo53) THEN [m |-> m, k |-> k, guard |-> guard, sticky |-> sticky]
  ELSE LET h == halve(m)
       IN significand(h.q, k + 1, h.r, sticky \/ guard = 1)

RECURSIVE scaled(_, _)
scaled(m, k) == IF k = 0 THEN m ELSE scaled(double(m), k - 1)

\* The Number value of an integer magnitude: the nearest double, a tie to the
\* even significand.
toNumber(mag) ==
  LET s == significand(mag, 0, 0, FALSE)
      up == s.guard = 1 /\ (s.sticky \/ isOdd(s.m))
  IN scaled(IF up THEN increment(s.m) ELSE s.m, s.k)

\* The leading digits of a character sequence from position i on.
RECURSIVE digitsFrom(_, _)
digitsFrom(chars, i) ==
  IF i > Len(chars) \/ ~isDigit(chars[i]) THEN <<>>
  ELSE <<digitOf(chars[i])>> \o digitsFrom(chars, i + 1)

\* Line 11: parseInt(val, 10).
parseInt(val) ==
  LET neg == Len(val) > 0 /\ val[1] = "-"
      digits == digitsFrom(val, IF neg THEN 2 ELSE 1)
  IN IF digits = <<>> THEN NoNumber
     ELSE [nan |-> FALSE, neg |-> neg, mag |-> toNumber(stripZeros(digits))]

\* Number.isInteger, for a value parseInt returned.
isInteger(n) == ~n.nan

\* Line 12: Number.isSafeInteger: an integer of magnitude at most 2^53 - 1.
isSafeInteger(n) == ~n.nan /\ less(n.mag, TwoTo53)

\* Lines 10-13: the parser registered for OID 20.
typeParser(val) ==
  LET parsed == parseInt(val)
  IN IF isSafeInteger(parsed)
       THEN [kind |-> "number", num |-> parsed, text |-> <<>>]
     ELSE [kind |-> "string", num |-> NoNumber, text |-> val]

\* The text of an int8 as the store writes it.
textOf(neg, mag) ==
  (IF neg THEN <<"-">> ELSE <<>>) \o [i \in 1..Len(mag) |-> DigitChars[mag[i] + 1]]

\* int8 values: the short ones, those around 2^53 (9007199254740900 to
\* 9007199254740999), and large ones up to the ends of the 64-bit range.
ShortMags ==
  {m \in SeqsUpTo(0..9, MaxDigits) : Len(m) >= 1 /\ (Len(m) > 1 => m[1] # 0)}

EdgeMags ==
  {<<9, 0, 0, 7, 1, 9, 9, 2, 5, 4, 7, 4, 0, 9, a, b>> : a \in 0..9, b \in 0..9}

LargeMags ==
  {<<1, 0, 0, 0, 0, 0, 0, 0, 0, 0, 0, 0, 0, 0, 0, 0>>,
   <<1, 8, 0, 1, 4, 3, 9, 8, 5, 0, 9, 4, 8, 1, 9, 8, 5>>,
   <<9, 9, 9, 9, 9, 9, 9, 9, 9, 9, 9, 9, 9, 9, 9, 9, 9, 9>>,
   <<9, 2, 2, 3, 3, 7, 2, 0, 3, 6, 8, 5, 4, 7, 7, 5, 8, 0, 7>>}

Int8Texts ==
  {textOf(FALSE, m) : m \in ShortMags \cup EdgeMags \cup LargeMags}
    \cup {textOf(TRUE, m) : m \in (ShortMags \ {<<0>>}) \cup EdgeMags \cup LargeMags}
    \cup {textOf(TRUE, <<9, 2, 2, 3, 3, 7, 2, 0, 3, 6, 8, 5, 4, 7, 7, 5, 8, 0, 8>>)}

\* pg hands the text of a BIGINT field to the parser.
Decode ==
  /\ pgValue = NoPgValue
  /\ pgValue' = typeParser(pgText)
  /\ UNCHANGED <<pgText, apiVars, appVars, builderVars, inferredJoinColumns,
                 typeVars, schemaVars>>

InitDecode ==
  /\ ApiIdle
  /\ BuilderMounted
  /\ selectedTable = ""
  /\ secondaryTableNames = <<>>
  /\ allTableSchemas = Catalog
  /\ inferredJoinColumns = EmptyObject
  /\ pgText \in Int8Texts
  /\ pgValue = NoPgValue
  /\ TypeIdle
  /\ SchemasLoaded

NextDecode == Decode

SpecDecode == InitDecode /\ [][NextDecode]_vars

\* 2^53 - 1, the largest safe integer.
MaxSafeMag == <<9, 0, 0, 7, 1, 9, 9, 2, 5, 4, 7, 4, 0, 9, 9, 1>>

\* The sign and the magnitude the text of an int8 denotes.
textNegative == Len(pgText) > 0 /\ pgText[1] = "-"

textMagnitude ==
  LET from == IF textNegative THEN 2 ELSE 1
  IN [i \in 1..(Len(pgText) - from + 1) |-> digitOf(pgText[i + from - 1])]

\* C20: an int8 whose magnitude is at most 2^53 - 1 is decoded to the number of
\* that value; any other int8 is returned as the string it arrived as.
C20_SafeIntegersDecoded ==
  pgValue.kind # "none" =>
    IF ~less(MaxSafeMag, textMagnitude)
      THEN /\ pgValue.kind = "number"
           /\ ~pgValue.num.nan
           /\ pgValue.num.neg = textNegative
           /\ pgValue.num.mag = textMagnitude
    ELSE /\ pgValue.kind = "string"
         /\ pgValue.text = pgText

C20_Witness ==
  /\ pgText = textOf(TRUE, TwoTo53)
  /\ pgValue.kind = "string"
  /\ pgValue.text = pgText

(***************************************************************************)
(* Classification of raw column types.  A raw type is a base type name     *)
(* with an optional prefix and suffix, as schemas of different stores      *)
(* spell them.                                                             *)
(***************************************************************************)
TypePrefixes == {<<>>, <<"b","i","g">>, <<"v","a","r">>, <<"u">>}

TypeBases ==
  {<<"i","n","t">>, <<"I","N","T">>, <<"f","l","o","a","t">>,
   <<"d","o","u","b","l","e">>, <<"d","e","c","i","m","a","l">>,
   <<"n","u","m","e","r","i","c">>, <<"N","U","M","E","R","I","C">>,
   <<"r","e","a","l">>, <<"n","u","m","b","e","r">>, <<"c","h","a","r">>,
   <<"t","e","x","t">>, <<"T","E","X","T">>, <<"d","a","t","e">>,
   <<"b","o","o","l","e","a","n">>}

TypeSuffixes ==
  {<<>>, <<"8">>, <<" ","p","r","e","c","i","s","i","o","n">>, <<"[","]">>}

RawTypes ==
  {pre \o base \o suf : pre \in TypePrefixes, base \in TypeBases,
                        suf \in TypeSuffixes}

\* part_006 line 217: the builder classifies the type of a column.
NormalizeBuilder ==
  /\ columnKind.builder = ""
  /\ columnKind' = [columnKind EXCEPT !.builder = normalizeTypeChars(rawType)]
  /\ UNCHANGED <<rawType, apiVars, appVars, builderVars, inferredJoinColumns,
                 pgVars, schemaVars>>

\* DynamicChartBuilder.tsx line 255: its copy classifies the type of a column.
NormalizeTsx ==
  /\ columnKind.legacy = ""
  /\ columnKind' = [columnKind EXCEPT !.legacy = normalizeTypeTsx(rawType)]
  /\ UNCHANGED <<rawType, apiVars, appVars, builderVars, inferredJoinColumns,
                 pgVars, schemaVars>>

InitNormalize ==
  /\ ApiIdle
  /\ BuilderMounted
  /\ PgIdle
  /\ selectedTable = ""
  /\ secondaryTableNames = <<>>
  /\ allTableSchemas = Catalog
  /\ inferredJoinColumns = EmptyObject
  /\ rawType \in RawTypes
  /\ columnKind = NoKind
  /\ SchemasLoaded

NextNormalize ==
  \/ NormalizeBuilder
  \/ NormalizeTsx

SpecNormalize == InitNormalize /\ [][NextNormalize]_vars

\* What the classification rule says of a lower-cased type.
saysNumber(lower) ==
  \/ \E token \in {<<"i","n","t">>, <<"f","l","o","a","t">>,
                   <<"d","o","u","b","l","e">>, <<"d","e","c","i","m","a","l">>,
                   <<"n","u","m","e","r","i","c">>, <<"r","e","a","l">>} :
       includes(lower, token)
  \/ lower = <<"n","u","m","b","e","r">>

saysString(lower) ==
  includes(lower, <<"c","h","a","r">>) \/ lower = <<"t","e","x","t">>

\* C21: each normalizeType returns string or number; for the lower-cased type it
\* returns number when the type contains int, float, double, decimal, numeric or
\* real, or equals number (and is not a char or text type), and string
\* otherwise.
C21_NormalizeClassifies ==
  LET lower == toLowerCase(rawType)
      kind == IF saysNumber(lower) /\ ~saysString(lower) THEN "number" ELSE "string"
  IN /\ columnKind.builder # "" => columnKind.builder = kind
     /\ columnKind.legacy # "" => columnKind.legacy = kind

\* The tables a request declares: its primary table and its secondary tables.
declaredTables(body) == {body.tableName} \cup Range(body.secondaryTableNames)

\* C22: in every request the builder has sent, the x-axis, every y-axis and the
\* group-by (when sent) name the request's primary table or one of its
\* secondary tables.
C22_RequestColumnsOfDeclaredTables ==
  \A p \in inflight :
    /\ p.body.xAxis.tableName \in declaredTables(p.body)
    /\ \A i \in 1..Len(p.body.yAxes) :
         p.body.yAxes[i].tableName \in declaredTables(p.body)
    /\ p.body.groupBy.present => p.body.groupBy.tableName \in declaredTables(p.body)

\* The output names of the SELECT list of a request, in the order of selectParts:
\* name for the x-axis (line 87), the group-by key when the group-by is selected
\* (line 93), the key of each y column (line 107).
outputNames(body) ==
  <<"name">>
    \o (IF groupByDiffers(body) THEN <<body.groupBy.key>> ELSE <<>>)
    \o [i \in 1..Len(body.yAxes) |-> body.yAxes[i].key]

\* C23: the SELECT list of a generated statement has one item per output name,
\* and no two of its output names are equal.
C23_OutputNamesDistinct ==
  Built =>
    /\ Len(apiStmt.selectParts) = Len(outputNames(apiBody))
    /\ NoDup(outputNames(apiBody))

\* The aliases a statement can qualify a column with.
statementAliases(body) ==
  {primaryAlias} \cup {"t" \o ToString(i + 1) : i \in 1..Len(body.secondaryTableNames)}

\* C24: the column list of a generated statement is the x column, qualified, as
\* selected for name, followed by the effective group-by column, qualified, as
\* selected, when there is one; the statement always ends with GROUP BY over that
\* list and ORDER BY over the same list in the same order.
C24_GroupByThenOrderBy ==
  Built =>
    LET parts == apiStmt.groupByParts
        list == IF groupByDiffers(apiBody)
                  THEN parts[1] \o ", " \o parts[2]
                  ELSE parts[1]
    IN /\ Len(parts) = (IF groupByDiffers(apiBody) THEN 2 ELSE 1)
       /\ \E alias \in statementAliases(apiBody) :
            parts[1] = qualifiedBy(alias, apiBody.xAxis)
       /\ apiStmt.selectParts[1] = parts[1] \o " AS name"
       /\ groupByDiffers(apiBody) =>
            /\ \E alias \in statementAliases(apiBody) :
                 parts[2] = qualifiedBy(alias, apiBody.groupBy)
            /\ apiStmt.selectParts[2] =
                 parts[2] \o " AS " \o quoted(apiBody.groupBy.key)
       /\ apiStmt.query =
            "SELECT " \o join(apiStmt.selectParts, ", ")
              \o " FROM " \o quoted(apiBody.tableName) \o " AS " \o primaryAlias
              \o join(apiStmt.joinParts, "")
              \o (IF Len(apiBody.filters) > 0
                    THEN " WHERE " \o join(apiStmt.whereParts, " AND ")
                    ELSE "")
              \o " GROUP BY " \o list \o " ORDER BY " \o list

C24_Witness ==
  /\ Built
  /\ groupByDiffers(apiBody)
  /\ Len(apiBody.filters) = 2
  /\ apiStmt.groupByParts = <<"t1.\"region\"", "t1.\"id\"">>
  /\ apiStmt.query =
       "SELECT t1.\"region\" AS name, t1.\"id\" AS \"id\", "
         \o "CAST(SUM(t1.\"qty\") AS BIGINT) AS \"qty\" FROM \"a\" AS t1"
         \o " INNER JOIN \"c\" AS t2 ON t1.\"id\" = t2.\"id\""
         \o " WHERE t1.\"region\" = $1 AND t1.\"qty\" > $2"
         \o " GROUP BY t1.\"region\", t1.\"id\" ORDER BY t1.\"region\", t1.\"id\""

(***************************************************************************)
(* App.tsx: the tabs and the loading of allTableSchemas.  The effect of    *)
(* lines 56-88 runs after a render in which activeTab, tables or           *)
(* allTableSchemas.length changed.                                         *)
(***************************************************************************)
MaxPasses == 2

Tabs == {"data", "charts", "dashboard", "settings"}

\* Lines 57-61: the condition under which the effect starts a pass.
startsFetch(tab, names, schemas) ==
  tab = "charts" /\ Len(names) > 0 /\ Len(schemas) = 0

\* A pass of fetchAllTableSchemas over the table names it closed over: next is
\* the table whose columns it awaits, schemas what it has pushed.
schemaPass(id, names) == [id |-> id, names |-> names, next |-> 1, schemas |-> <<>>]

\* The effect after a render with the given tab, names and schemas.
schemasEffect(tab, names, schemas, fetches) ==
  IF startsFetch(tab, names, schemas)
    THEN /\ fetchesStarted < MaxPasses
         /\ fetchesStarted' = fetchesStarted + 1
         /\ schemaFetches' = fetches \cup {schemaPass(fetchesStarted + 1, names)}
  ELSE /\ fetchesStarted' = fetchesStarted
       /\ schemaFetches' = fetches

\* The table lists the store may answer getTables with.
TableNameLists == {names \in SeqsUpTo(Tables, Len(Catalog)) : Len(names) > 0 /\ NoDup(names)}

\* Lines 41-54: getTables resolved with the table names.
TableNamesFetched(names) ==
  /\ tables = <<>>
  /\ tables' = names
  /\ schemasEffect(activeTab, tables', allTableSchemas, schemaFetches)
  /\ UNCHANGED <<activeTab, schemaWrites, allTableSchemas>>

\* Sidebar onTabChange.
setActiveTab(tab) ==
  /\ tab # activeTab
  /\ activeTab' = tab
  /\ schemasEffect(tab, tables, allTableSchemas, schemaFetches)
  /\ UNCHANGED <<tables, schemaWrites, allTableSchemas>>

\* Lines 66-77: getTableColumns of the awaited table resolved; after the last
\* table, line 79: setAllTableSchemas(schemas).
TableColumnsFetched(f) ==
  LET t == f.names[f.next]
      pushed == Append(f.schemas, Schema(t, tableColumns(t)))
  IN /\ f \in schemaFetches
     /\ IF f.next < Len(f.names)
          THEN /\ schemaFetches' = (schemaFetches \ {f})
                                     \cup {[f EXCEPT !.next = f.next + 1,
                                                     !.schemas = pushed]}
               /\ UNCHANGED <<allTableSchemas, schemaWrites, fetchesStarted>>
        ELSE /\ allTableSchemas' = pushed
             /\ schemaWrites' = schemaWrites + 1
             /\ IF Len(pushed) # Len(allTableSchemas)
                  THEN schemasEffect(activeTab, tables, pushed, schemaFetches \ {f})
                ELSE /\ schemaFetches' = schemaFetches \ {f}
                     /\ fetchesStarted' = fetchesStarted
     /\ UNCHANGED <<activeTab, tables>>

\* Lines 82-84: a getTableColumns of the pass failed; the pass ends in the catch.
TableColumnsFailed(f) ==
  /\ f \in schemaFetches
  /\ schemaFetches' = schemaFetches \ {f}
  /\ UNCHANGED <<activeTab, tables, allTableSchemas, schemaWrites, fetchesStarted>>

InitSchemas ==
  /\ ApiIdle
  /\ PgIdle
  /\ TypeIdle
  /\ BuilderMounted
  /\ selectedTable = ""
  /\ secondaryTableNames = <<>>
  /\ inferredJoinColumns = EmptyObject
  /\ allTableSchemas = <<>>
  /\ activeTab = "data"
  /\ tables = <<>>
  /\ schemaFetches = {}
  /\ fetchesStarted = 0
  /\ schemaWrites = 0

NextSchemas ==
  \/ \E names \in TableNameLists :
     /\ TableNamesFetched(names)
     /\ UNCHANGED <<apiVars, builderVars, selectedTable, secondaryTableNames,
                    inferredJoinColumns, pgVars, typeVars>>
  \/ \E tab \in Tabs :
       /\ setActiveTab(tab)
       /\ UNCHANGED <<apiVars, builderVars, selectedTable, secondaryTableNames,
                      inferredJoinColumns, pgVars, typeVars>>
  \/ \E f \in schemaFetches :
       /\ TableColumnsFetched(f)
       /\ UNCHANGED <<apiVars, builderVars, selectedTable, secondaryTableNames,
                      inferredJoinColumns, pgVars, typeVars>>
  \/ \E f \in schemaFetches :
       /\ TableColumnsFailed(f)
       /\ UNCHANGED <<apiVars, builderVars, selectedTable, secondaryTableNames,
                      inferredJoinColumns, pgVars, typeVars>>

SpecSchemas == InitSchemas /\ [][NextSchemas]_vars

\* C25: at most one pass of fetchAllTableSchemas is ever started, and
\* allTableSchemas is written at most once.
C25_SchemasLoadedOnce ==
  /\ fetchesStarted <= 1
  /\ schemaWrites <= 1

\* C26: loading is true exactly while a request of the builder is in flight.
C26_LoadingWhileInFlight == loading = (inflight # {})

\* C27: a step that changes the primary table or the secondary tables leaves the
\* axis selection, chartData, generatedQuery and uniqueGroupKeys cleared and
\* issues no request; and while no x column or no y column is selected,
\* chartData is empty.
C27_ResetClearsAndStaysClear ==
  /\ [][(selectedTable' # selectedTable
          \/ secondaryTableNames' # secondaryTableNames) =>
          /\ ~xAxisColumn'.present
          /\ yAxisColumns' = <<>>
          /\ ~groupByColumn'.present
          /\ chartData' = <<>>
          /\ generatedQuery' = ""
          /\ uniqueGroupKeys' = <<>>
          /\ issued' = issued]_vars
  /\ []((~xAxisColumn.present \/ yAxisColumns = <<>>) => chartData = <<>>)

\* C28: uniqueGroupKeys is empty whenever chartData is empty, and when it is not
\* empty it holds every field other than name of every chartData row.
C28_GroupKeysMatchChartData ==
  /\ chartData = <<>> => uniqueGroupKeys = <<>>
  /\ uniqueGroupKeys # <<>> =>
       \A i \in 1..Len(chartData) :
         (DOMAIN chartData[i]) \ {"name"} \subseteq Range(uniqueGroupKeys)

(***************************************************************************)
(* SpecDrop: columns of the primary table a and of the secondary table b   *)
(* (both have a column id) dragged to and removed from the Y and Group By  *)
(* zones.  No x column is selected, so no request is sent.                 *)
(***************************************************************************)
MaxDropped == 3

DropZones == {"y", "group"}

InitDrop ==
  /\ ApiIdle
  /\ PgIdle
  /\ TypeIdle
  /\ BuilderMounted
  /\ selectedTable = "a"
  /\ secondaryTableNames = <<"b">>
  /\ allTableSchemas = Catalog
  /\ inferredJoinColumns = inferJoinColumns("a", <<"b">>, Catalog)
  /\ SchemasLoaded

NextDrop ==
  \/ \E col \in allColumns(selectedTable, secondaryTableNames, allTableSchemas) :
       \E axis \in DropZones :
         /\ axis = "y" => Len(yAxisColumns) < MaxDropped
         /\ handleDrop(col, axis)
         /\ UNCHANGED <<lastResp, pgVars, typeVars, schemaVars>>
  \/ \E col \in allColumns(selectedTable, secondaryTableNames, allTableSchemas) :
       \E axis \in DropZones :
         /\ handleRemove(col, axis)
         /\ UNCHANGED <<lastResp, pgVars, typeVars, schemaVars>>

SpecDrop == InitDrop /\ [][NextDrop]_vars

\* The keys of a list of columns.
keysOf(cols) == {cols[i].key : i \in 1..Len(cols)}

\* C29: no two y columns have the same key; a drop on Y of a column whose key is
\* present leaves yAxisColumns as it is and any other drop appends the column;
\* a removal from Y leaves the columns of the other keys, in their order.
C29_YColumnsDistinctByKey ==
  /\ [](\A i, j \in 1..Len(yAxisColumns) :
          i # j => yAxisColumns[i].key # yAxisColumns[j].key)
  /\ [][\A col \in allColumns(selectedTable, secondaryTableNames, allTableSchemas) :
          /\ handleDrop(col, "y") =>
               yAxisColumns' = IF col.key \in keysOf(yAxisColumns)
                                 THEN yAxisColumns
                                 ELSE Append(yAxisColumns, col)
          /\ handleRemove(col, "y") =>
               /\ col.key \notin keysOf(yAxisColumns')
               /\ yAxisColumns' = SelectSeq(yAxisColumns, LAMBDA c : c.key # col.key)]_vars

C29_Witness ==
  /\ Len(yAxisColumns) = 2
  /\ yAxisColumns[1].key = "qty"
  /\ yAxisColumns[2] = DbCol("id", "b", "number")
  /\ groupByColumn = DbCol("id", "a", "number")

\* The tables for which join inference with the primary table returns a column.
joinableTables(table, schemas) ==
  {t \in Tables \ {table} : t \in DOMAIN inferJoinColumns(table, <<t>>, schemas)}

\* C30: the tables offered as secondary tables are those for which join
\* inference with the primary table returns a column; every selected secondary
\* table has an entry in inferredJoinColumns; a step that changes the primary
\* table leaves no secondary table selected.
C30_OfferedIffJoinable ==
  /\ [](/\ selectedTable # "" =>
             filteredSecondaryTablesForDropdown(selectedTable, allTableSchemas)
               = joinableTables(selectedTable, allTableSchemas)
        /\ \A t \in Range(secondaryTableNames) : t \in DOMAIN inferredJoinColumns)
  /\ [][selectedTable' # selectedTable => secondaryTableNames' = <<>>]_vars

====
